---------------------------- MODULE Spec2Model ----------------------------
(***************************************************************************)
(* Document ingestion and quality gating of "The Bureaucratic Archivist":  *)
(*   scripts/document_scraper.py  (search, copyright gate, header skip,     *)
(*                                 cleanup, quality gate, selection loop)   *)
(*   scripts/dual_llm_verify.py   (finder / verifier debate)                *)
(*                                                                         *)
(* Python strings are modelled as sequences of one-character strings, so   *)
(* that len, slicing, searching and the regular expressions of the source  *)
(* are computed character by character.  Python's None is the model value  *)
(* None.  Ratios that the source computes in floating point are compared   *)
(* by cross-multiplication of the integer counts: for the counts that      *)
(* occur here (far below 2^50) the correctly rounded quotient compares     *)
(* with the literal threshold exactly as the rational does.                *)
(*                                                                         *)
(* Specifications:                                                         *)
(*   SpecDual       one run of dual_llm_find_content                       *)
(*   SpecCopyright  one call of verify_copyright_safety                    *)
(*   SpecQuality    one call of validate_text_quality                      *)
(*   SpecSkip       one call of ai_skip_headers (with brutal_header_skip)  *)
(*   SpecClean      clean_document_text applied to its own output          *)
(*   Spec           one call of select_random_document, or of              *)
(*                  search_internet_archive alone                          *)
(***************************************************************************)
EXTENDS Integers, Sequences, FiniteSets, TLC

VARIABLES
    \* ---- dual_llm_verify.dual_llm_find_content ----
    d_pc,            \* position in dual_llm_find_content
    raw_len,         \* len(raw_text)
    api_key,         \* TRUE when a key is available (argument or GROQ_API_KEY)
    max_rounds,      \* the max_rounds argument
    position,        \* local `position`
    new_position,    \* local `new_position`
    llm2_result,     \* local `llm2_result` (the verifier's last verdict)
    round_num,       \* loop variable of the debate loop
    finder_calls,    \* calls of llm1_find_content / llm_debate_round so far
    verifier_calls,  \* calls of llm2_verify_content so far
    requests_sent,   \* HTTP requests call_llm has sent so far
    disagreements,   \* verifier verdicts so far with agrees false
    last_suggested,  \* suggested_position of the latest verifier verdict
    d_result,        \* the returned dict, None before the return
    proposals,       \* the positions the finder has returned, in call order
    verified,        \* the llm1_position arguments of the verifier calls
    reprompts,       \* the llm1_position arguments of llm_debate_round
    verifier_parsed, \* TRUE when the latest verifier reply parsed as JSON
    \* ---- document_scraper.verify_copyright_safety ----
    c_pc,            \* "call" before the call, "done" after
    metadata,        \* the candidate dict passed in (date, collection)
    verdict,         \* the returned dict, None before the return
    \* ---- document_scraper.validate_text_quality ----
    q_pc,            \* "call" before the call, "done" after
    q_text,          \* the text argument
    q_type,          \* the document_type argument
    quality,         \* the returned dict, None before the return
    \* ---- document_scraper.ai_skip_headers ----
    s_pc,            \* "call" before the call, "done" after
    s_raw_text,      \* the raw_text argument
    s_key,           \* TRUE when groq_api_key or GROQ_API_KEY is non-empty
    s_response,      \* what the service does with the request, if one is sent
    s_out,           \* what the call did and returned, None before the return
    \* ---- document_scraper.select_random_document ----
    o_pc,            \* position in the function; "returned_none" and
                     \* "returned_doc" after the return
    o_type,          \* document_type
    o_min_words,     \* min_words
    o_key,           \* TRUE when a Groq key is available
    o_service,       \* what the Groq service does with a request
    o_search,        \* what the archive's search does with the request
    o_docs,          \* docs
    o_index,         \* 1-based index in docs of the candidate of the loop
    o_attempts,      \* attempts
    o_text,          \* text, as [found, text] (found FALSE for None)
    o_cleaned,       \* cleaned_text
    o_quality,       \* quality
    o_log,           \* the calls made so far, as <<operation, index>>
    o_requests,      \* requests sent to the archive's search API
    o_result,        \* the dict returned, None before that
    \* ---- document_scraper.clean_document_text, applied twice ----
    k_pc,            \* "start", "once", "twice"
    k_text,          \* raw_text
    k_once,          \* clean_document_text(raw_text)
    k_twice,         \* clean_document_text(clean_document_text(raw_text))
    \* ---- main_pipeline.BureaucraticArchivistPipeline.create_video ----
    p_pc,            \* the step create_video is at; "returned" and "raised"
                     \* after it
    p_failing,       \* the downstream step that raises, None when none does
    p_steps,         \* the downstream steps run so far
    history,         \* self.history
    history_file,    \* the content of video_history.json, None without file
    \* ---- document_scraper.split_text_for_duration ----
    t_pc,            \* "call" before the call, "done" after
    t_text,          \* text
    t_minutes,       \* target_minutes
    t_wpm,           \* words_per_minute
    t_out,           \* the string returned
    \* ---- text_cleaner.clean_text_with_llm and clean_gutenberg_text ----
    g_pc,            \* which of the two is called, "done" after the call
    g_text,          \* text
    g_key,           \* TRUE when api_key or GROQ_API_KEY is non-empty
    g_chunk_size,    \* chunk_size
    g_replies,       \* what the Groq service does with the k-th request
    g_out,           \* the outcome: raised, or the value returned
    \* ---- document_fetcher.select_random_document ----
    f_pc,            \* position in the function, or "clean_call" for a call
                     \* of clean_document_text alone; "done" after the call
    f_search,        \* what the archive's search does with the request
    f_min_words,     \* min_words
    f_raw_text,      \* raw_text of the call of clean_document_text alone
    f_docs,          \* docs
    f_index,         \* 1-based index in docs of the candidate of the loop
    f_out            \* the outcome: raised, None, or the dict returned

dualVars == <<d_pc, raw_len, api_key, max_rounds, position, new_position,
              llm2_result, round_num, finder_calls, verifier_calls,
              requests_sent, disagreements, last_suggested, d_result,
              proposals, verified, reprompts, verifier_parsed>>

copyVars == <<c_pc, metadata, verdict>>

qualVars == <<q_pc, q_text, q_type, quality>>

skipVars == <<s_pc, s_raw_text, s_key, s_response, s_out>>

orchVars ==
    <<o_pc, o_type, o_min_words, o_key, o_service, o_search, o_docs, o_index,
      o_attempts, o_text, o_cleaned, o_quality, o_log, o_requests, o_result>>

cleanVars == <<k_pc, k_text, k_once, k_twice>>

pipeVars == <<p_pc, p_failing, p_steps, history, history_file>>

splitVars == <<t_pc, t_text, t_minutes, t_wpm, t_out>>

llmVars == <<g_pc, g_text, g_key, g_chunk_size, g_replies, g_out>>

fetchVars ==
    <<f_pc, f_search, f_min_words, f_raw_text, f_docs, f_index, f_out>>

restVars == <<pipeVars, splitVars, llmVars, fetchVars>>

vars == <<dualVars, copyVars, qualVars, skipVars, orchVars, cleanVars,
          restVars>>

None == "None"

Min(a, b) == IF a <= b THEN a ELSE b
Max(a, b) == IF a >= b THEN a ELSE b

(***************************************************************************)
(* Characters and strings                                                  *)
(***************************************************************************)

LowerChars == <<"a", "b", "c", "d", "e", "f", "g", "h", "i", "j", "k", "l", "m", "n", "o", "p", "q", "r", "s", "t", "u", "v", "w", "x", "y", "z">>
UpperChars == <<"A", "B", "C", "D", "E", "F", "G", "H", "I", "J", "K", "L", "M", "N", "O", "P", "Q", "R", "S", "T", "U", "V", "W", "X", "Y", "Z">>
DigitChars == <<"0", "1", "2", "3", "4", "5", "6", "7", "8", "9">>

Range(f) == {f[i] : i \in DOMAIN f}

LowerSet == Range(LowerChars)
UpperSet == Range(UpperChars)
DigitSet == Range(DigitChars)

IsLower(c) == c \in LowerSet
IsUpper(c) == c \in UpperSet
IsDigit(c) == c \in DigitSet
IsAsciiAlpha(c) == IsLower(c) \/ IsUpper(c)

IndexIn(seq, c) == CHOOSE i \in DOMAIN seq : seq[i] = c

\* str.lower() on one character, and on a string (SubSeq makes the result
\* a sequence value rather than a function expression).
LowerChar(c) == IF IsUpper(c) THEN LowerChars[IndexIn(UpperChars, c)] ELSE c
Lower(str) == SubSeq([i \in DOMAIN str |-> LowerChar(str[i])], 1, Len(str))

\* int() of a run of ASCII digits.
RECURSIVE ToInt(_)
ToInt(ds) ==
    IF ds = <<>> THEN 0
    ELSE 10 * ToInt(SubSeq(ds, 1, Len(ds) - 1))
         + (IndexIn(DigitChars, ds[Len(ds)]) - 1)

\* Characters beyond ASCII are named by their code point.  U+00E9 is a
\* letter (str.isalpha, \w); U+00A7 is a symbol (neither).
NonAsciiLetters == {"U+00E9"}
NonAsciiSymbols == {"U+00A7"}

\* \w of Python's re on str: letters, digits and the underscore.
IsWordChar(c) ==
    IsAsciiAlpha(c) \/ IsDigit(c) \/ c = "_" \/ c \in NonAsciiLetters

\* pat occurs in str at index i (1-based).
OccursAt(str, i, pat) ==
    /\ i >= 1
    /\ i + Len(pat) - 1 <= Len(str)
    /\ \A k \in 1..Len(pat) : str[i + k - 1] = pat[k]

\* Python's `pat in str`.
Contains(str, pat) == \E i \in 1..(Len(str) + 1) : OccursAt(str, i, pat)

\* str.isalpha on one character.
IsAlpha(c) == IsAsciiAlpha(c) \/ c \in NonAsciiLetters

\* Characters str.strip() removes.
Whitespace == {" ", "\t", "\n", "\r"}

SetMin(S) == CHOOSE x \in S : \A y \in S : x <= y
SetMax(S) == CHOOSE x \in S : \A y \in S : x >= y

\* Python offsets are 0-based: str[start:] and str[:stop].
SliceFrom(str, start) == SubSeq(str, start + 1, Len(str))
SliceTo(str, stop) == SubSeq(str, 1, Min(stop, Len(str)))

\* str.find(pat): the 0-based offset of the first occurrence, -1 if none.
Find(str, pat) ==
    LET hits == {i \in 1..(Len(str) - Len(pat) + 1) : OccursAt(str, i, pat)}
    IN  IF hits = {} THEN 0 - 1 ELSE SetMin(hits) - 1

\* str.strip()
Strip(str) ==
    LET n == Len(str)
        blank(i) == str[i] \in Whitespace
    IN  IF \A i \in 1..n : blank(i) THEN <<>>
        ELSE SubSeq(str,
                    CHOOSE i \in 1..n :
                        ~blank(i) /\ \A j \in 1..(i - 1) : blank(j),
                    CHOOSE i \in 1..n :
                        ~blank(i) /\ \A j \in (i + 1)..n : blank(j))

RECURSIVE SortedSeq(_)
\* The elements of a set of numbers in increasing order.
SortedSeq(S) ==
    IF S = {} THEN <<>> ELSE <<SetMin(S)>> \o SortedSeq(S \ {SetMin(S)})

\* str.split('\n')
SplitLines(str) ==
    LET nls == SortedSeq({i \in 1..Len(str) : str[i] = "\n"})
        m == Len(nls)
        cut(k) == IF k = 0 THEN 0
                  ELSE IF k = m + 1 THEN Len(str) + 1 ELSE nls[k]
    IN  SubSeq([k \in 1..(m + 1) |->
                    SubSeq(str, cut(k - 1) + 1, cut(k) - 1)], 1, m + 1)

RECURSIVE Join(_, _)
\* sep.join(parts)
Join(parts, sep) ==
    IF parts = <<>> THEN <<>>
    ELSE IF Len(parts) = 1 THEN parts[1]
    ELSE parts[1] \o sep \o Join(Tail(parts), sep)

(***************************************************************************)
(* dual_llm_verify.py                                                      *)
(***************************************************************************)

\* Largest max_rounds argument explored.
MaxRounds == 3

\* Sample length cap of dual_llm_find_content (raw_text[:min(15000, len)]).
DualSampleCap == 15000

\* Lengths of the raw texts explored: empty, one character, short, and one
\* longer than the sample cap.
RawLens == {0, 1, 40, DualSampleCap + 1}

\* Integers the service may name as a position: negative, zero, inside a
\* short text, its length, and far beyond.
Positions == {-1, 0, 1, 40, 20000}

Confidences == {"high", "medium", "low"}

\* What the finder's reply text parses to (llm1_find_content lines 100-128,
\* llm_debate_round lines 247-264):
\*   "none"    call_llm's answer is None or empty (no key, non-200, exception)
\*   "json"    a JSON object was found and int(position) succeeded;
\*             sliceable: its "reasoning" value supports [:60] (a string or a
\*             list; a number, true/false or null does not)
\*   "number"  no usable JSON object, but the text holds a run of digits
\*   "garbage" neither
FinderReplies ==
    {[kind |-> "none", pos |-> 0, sliceable |-> TRUE],
     [kind |-> "garbage", pos |-> 0, sliceable |-> TRUE]}
    \cup {[kind |-> "json", pos |-> p, sliceable |-> s] :
             p \in Positions, s \in BOOLEAN}
    \cup {[kind |-> "number", pos |-> p, sliceable |-> TRUE] :
             p \in {q \in Positions : q >= 0}}

\* What the verifier's reply text parses to (llm2_verify_content lines
\* 179-199).  has_pos = FALSE: the object has no "suggested_position" key.
VerifierReplies ==
    {[kind |-> "none", agrees |-> TRUE, has_pos |-> FALSE, pos |-> 0,
      sliceable |-> TRUE, confidence |-> "low"],
     [kind |-> "garbage", agrees |-> TRUE, has_pos |-> FALSE, pos |-> 0,
      sliceable |-> TRUE, confidence |-> "low"]}
    \cup {[kind |-> "json", agrees |-> a, has_pos |-> TRUE, pos |-> p,
           sliceable |-> s, confidence |-> c] :
             a \in BOOLEAN, p \in Positions, s \in BOOLEAN, c \in Confidences}
    \cup {[kind |-> "json", agrees |-> a, has_pos |-> FALSE, pos |-> 0,
           sliceable |-> TRUE, confidence |-> "medium"] : a \in BOOLEAN}

\* call_llm: without a key no request is sent and the answer is None.
call_llm(key, reply) ==
    IF ~key THEN [reply EXCEPT !.kind = "none"] ELSE reply

\* llm1_find_content: the dict it returns (reasoning kept as "can it be
\* sliced", first_words only feeds the next prompt).
llm1_find_content(key, reply) ==
    LET result == call_llm(key, reply) IN
    CASE result.kind = "none" ->
            [position |-> 0, sliceable |-> TRUE]
      [] result.kind = "json" ->
            [position |-> result.pos, sliceable |-> result.sliceable]
      [] result.kind = "number" ->
            [position |-> result.pos, sliceable |-> TRUE]
      [] OTHER ->
            [position |-> 0, sliceable |-> TRUE]

\* llm2_verify_content: a failed or unparsable reply defaults to agreement
\* on the finder's position.
llm2_verify_content(key, llm1_position, reply) ==
    LET result == call_llm(key, reply) IN
    IF result.kind = "json"
    THEN [agrees |-> result.agrees,
          suggested_position |->
              IF result.has_pos THEN result.pos ELSE llm1_position,
          sliceable |-> result.sliceable,
          confidence |-> result.confidence]
    ELSE [agrees |-> TRUE, suggested_position |-> llm1_position,
          sliceable |-> TRUE, confidence |-> "low"]

\* llm_debate_round: only a JSON object changes the position; there is no
\* bare-number fallback here.
llm_debate_round(key, llm1_position, reply) ==
    LET result == call_llm(key, reply) IN
    IF result.kind = "json"
    THEN [new_position |-> result.pos]
    ELSE [new_position |-> llm1_position]

\* Line 317: round_num in range(2, max_rounds + 1).
InDebateRangeOffByOne(r, m) == 2 <= r /\ r <= m + 1
InDebateRange(r, m) == 2 <= r /\ r < m + 1

\* Line 347: the position returned when the verifier agrees in a debate
\* round.
agreed_positionPrevious(pos, new_pos) == pos
agreed_position(pos, new_pos) == new_pos

\* Line 357: llm2_result.get("suggested_position", position); the key is
\* always present in what llm2_verify_content returns.
final_positionFinder(llm2, pos) == pos
final_position(llm2, pos) == llm2.suggested_position

CopyIdle == c_pc = "idle" /\ metadata = None /\ verdict = None

QualIdle == q_pc = "idle" /\ q_text = <<>> /\ q_type = None /\ quality = None

SkipIdle ==
    /\ s_pc = "idle" /\ s_raw_text = <<>> /\ s_key = FALSE
    /\ s_response = None /\ s_out = None

CleanIdle == k_pc = "idle" /\ k_text = <<>> /\ k_once = <<>> /\ k_twice = <<>>

PipeIdle ==
    /\ p_pc = "idle" /\ p_failing = None
    /\ p_steps = <<>> /\ history = None /\ history_file = None

SplitIdle ==
    /\ t_pc = "idle" /\ t_text = <<>> /\ t_minutes = 0 /\ t_wpm = 0
    /\ t_out = <<>>

LlmIdle ==
    /\ g_pc = "idle" /\ g_text = <<>> /\ g_key = FALSE /\ g_chunk_size = 0
    /\ g_replies = <<>> /\ g_out = None

FetchIdle ==
    /\ f_pc = "idle" /\ f_search = None /\ f_min_words = 0
    /\ f_raw_text = <<>> /\ f_docs = <<>> /\ f_index = 0 /\ f_out = None

RestIdle == PipeIdle /\ SplitIdle /\ LlmIdle /\ FetchIdle

OrchIdle ==
    /\ o_pc = "idle" /\ o_type = None /\ o_min_words = 0 /\ o_key = FALSE
    /\ o_service = None /\ o_search = None /\ o_docs = <<>> /\ o_index = 0
    /\ o_attempts = 0 /\ o_text = None /\ o_cleaned = <<>>
    /\ o_quality = None /\ o_log = <<>> /\ o_requests = 0 /\ o_result = None

NoVerdict == [agrees |-> FALSE, suggested_position |-> 0,
              sliceable |-> TRUE, confidence |-> "low"]

DualInit ==
    /\ d_pc = "find"
    /\ raw_len \in RawLens
    /\ api_key \in BOOLEAN
    /\ max_rounds \in 0..MaxRounds
    /\ position = 0
    /\ new_position = 0
    /\ llm2_result = NoVerdict
    /\ round_num = 1
    /\ finder_calls = 0
    /\ verifier_calls = 0
    /\ requests_sent = 0
    /\ disagreements = 0
    /\ last_suggested = None
    /\ d_result = None
    /\ proposals = <<>> /\ verified = <<>> /\ reprompts = <<>>
    /\ verifier_parsed = FALSE

Sent == IF api_key THEN 1 ELSE 0

\* Lines 286-292: round 1, the finder proposes.  Line 292 slices the
\* reasoning for the log and raises TypeError when it cannot be sliced.
Llm1Find ==
    /\ UNCHANGED <<copyVars, qualVars, skipVars, orchVars, cleanVars,
                   restVars>>
    /\ d_pc = "find"
    /\ \E reply \in FinderReplies :
         LET llm1_result == llm1_find_content(api_key, reply) IN
         /\ position' = llm1_result.position
         /\ proposals' = Append(proposals, llm1_result.position)
         /\ d_pc' = IF llm1_result.sliceable THEN "verify1" ELSE "raised"
    /\ finder_calls' = finder_calls + 1
    /\ requests_sent' = requests_sent + Sent
    /\ UNCHANGED <<raw_len, api_key, max_rounds, new_position, llm2_result,
                   round_num, verifier_calls, disagreements, last_suggested,
                   d_result, verified, reprompts, verifier_parsed>>

\* Lines 294-314: round 1, the verifier checks `position`.
VerifyFirst ==
    /\ UNCHANGED <<copyVars, qualVars, skipVars, orchVars, cleanVars,
                   restVars>>
    /\ d_pc = "verify1"
    /\ \E reply \in VerifierReplies :
         LET v == llm2_verify_content(api_key, position, reply) IN
         /\ llm2_result' = v
         /\ verifier_parsed' = (call_llm(api_key, reply).kind = "json")
         /\ disagreements' = disagreements + (IF v.agrees THEN 0 ELSE 1)
         /\ last_suggested' = v.suggested_position
         /\ IF v.agrees
            THEN /\ d_result' = [position |-> position,
                                 confidence |-> v.confidence,
                                 rounds |-> 1, agreed |-> TRUE]
                 /\ d_pc' = "done"
                 /\ round_num' = round_num
            ELSE /\ d_result' = d_result
                 /\ d_pc' = IF v.sliceable THEN "loop" ELSE "raised"
                 /\ round_num' = 2
    /\ verifier_calls' = verifier_calls + 1
    /\ requests_sent' = requests_sent + Sent
    /\ verified' = Append(verified, position)
    /\ UNCHANGED <<raw_len, api_key, max_rounds, position, new_position,
                   finder_calls, proposals, reprompts>>

\* Lines 317-331: a debate round, the finder is re-prompted with its own
\* position and the verifier's reasoning.
DebateRound ==
    /\ UNCHANGED <<copyVars, qualVars, skipVars, orchVars, cleanVars,
                   restVars>>
    /\ d_pc = "loop"
    /\ InDebateRange(round_num, max_rounds)
    /\ \E reply \in FinderReplies :
         new_position' =
             llm_debate_round(api_key, position, reply).new_position
    /\ proposals' = Append(proposals, new_position')
    /\ reprompts' = Append(reprompts, position)
    /\ d_pc' = "verify"
    /\ finder_calls' = finder_calls + 1
    /\ requests_sent' = requests_sent + Sent
    /\ UNCHANGED <<raw_len, api_key, max_rounds, position, llm2_result,
                   round_num, verifier_calls, disagreements, last_suggested,
                   d_result, verified, verifier_parsed>>

\* Lines 333-354: the verifier checks `new_position`.
VerifyDebate ==
    /\ UNCHANGED <<copyVars, qualVars, skipVars, orchVars, cleanVars,
                   restVars>>
    /\ d_pc = "verify"
    /\ \E reply \in VerifierReplies :
         LET v == llm2_verify_content(api_key, new_position, reply) IN
         /\ llm2_result' = v
         /\ verifier_parsed' = (call_llm(api_key, reply).kind = "json")
         /\ disagreements' = disagreements + (IF v.agrees THEN 0 ELSE 1)
         /\ last_suggested' = v.suggested_position
         /\ IF v.agrees
            THEN /\ d_result' = [position |-> agreed_position(position,
                                                               new_position),
                                 confidence |-> v.confidence,
                                 rounds |-> round_num, agreed |-> TRUE]
                 /\ d_pc' = "done"
                 /\ UNCHANGED <<position, round_num>>
            ELSE /\ d_result' = d_result
                 /\ position' = new_position
                 /\ round_num' = round_num + 1
                 /\ d_pc' = "loop"
    /\ verifier_calls' = verifier_calls + 1
    /\ requests_sent' = requests_sent + Sent
    /\ verified' = Append(verified, new_position)
    /\ UNCHANGED <<raw_len, api_key, max_rounds, new_position, finder_calls,
                   proposals, reprompts>>

\* Lines 356-366: the loop is exhausted, the verifier's last suggestion is
\* returned.
MaxRoundsReached ==
    /\ UNCHANGED <<copyVars, qualVars, skipVars, orchVars, cleanVars,
                   restVars>>
    /\ d_pc = "loop"
    /\ ~InDebateRange(round_num, max_rounds)
    /\ d_result' = [position |-> final_position(llm2_result, position),
                    confidence |-> "low",
                    rounds |-> max_rounds, agreed |-> FALSE]
    /\ d_pc' = "done"
    /\ UNCHANGED <<raw_len, api_key, max_rounds, position, new_position,
                   llm2_result, round_num, finder_calls, verifier_calls,
                   requests_sent, disagreements, last_suggested, proposals,
                   verified, reprompts, verifier_parsed>>

DualNext ==
    \/ Llm1Find
    \/ VerifyFirst
    \/ DebateRound
    \/ VerifyDebate
    \/ MaxRoundsReached

InitDual ==
    DualInit /\ CopyIdle /\ QualIdle /\ SkipIdle /\ OrchIdle /\ CleanIdle
    /\ RestIdle

SpecDual == InitDual /\ [][DualNext]_vars

(***************************************************************************)
(* Claims about dual_llm_find_content (checked under SpecDual)             *)
(***************************************************************************)

DualReturned == d_pc = "done"
DualRaised == d_pc = "raised"

\* The rounds the protocol asks for: round 1 always runs, then the debate
\* rounds 2..max_rounds.
RoundsAsked == Max(1, max_rounds)

C10_BoundedRounds ==
    /\ (DualReturned \/ DualRaised \/ ENABLED DualNext)
    /\ max_rounds >= 1 =>
          /\ finder_calls <= max_rounds
          /\ verifier_calls <= max_rounds
          /\ requests_sent <= 2 * max_rounds
          /\ DualReturned =>
                (1 <= d_result.rounds /\ d_result.rounds <= max_rounds)

\* C10 witness: a run that used the whole budget of a three-round debate.
C10_Witness ==
    /\ DualReturned
    /\ max_rounds = 3
    /\ finder_calls = 3
    /\ verifier_calls = 3
    /\ requests_sent = 6
    /\ d_result.rounds = 3
    /\ d_result.agreed

\* C7 (as claimed): for non-empty raw text the position that
\* dual_llm_find_content returns satisfies 0 <= position < len(raw_text).
C7_OffsetWithinText ==
    (DualReturned /\ raw_len > 0)
        => (0 <= d_result.position /\ d_result.position < raw_len)

(***************************************************************************)
(* document_scraper.verify_copyright_safety                                *)
(***************************************************************************)

\* Lines 493 and 500-506.
CopyrightCutoff == 1928
trusted_collections ==
    <<<<"g", "o", "v", "e", "r", "n", "m", "e", "n", "t", "p", "u", "b", "l", "i", "c", "a", "t", "i", "o", "n", "s">>,
      <<"u", "s", "f", "e", "d", "e", "r", "a", "l", "g", "o", "v", "e", "r", "n", "m", "e", "n", "t", "p", "u", "b", "l", "i", "c", "a", "t", "i", "o", "n", "s">>,
      <<"a", "m", "e", "r", "i", "c", "a", "n", "a">>,
      <<"n", "a", "v", "a", "l">>,
      <<"m", "a", "r", "i", "t", "i", "m", "e">>>>

\* Collection tags explored: trusted names, a name that only contains a
\* trusted name, two halves of one, and unrelated ones (one capitalised).
Tags ==
    {<<"a", "m", "e", "r", "i", "c", "a", "n", "a">>,
     <<"B", "o", "o", "k", "s">>,
     <<"n", "a", "v", "a", "l">>,
     <<"n", "a", "v", "a", "l", "h", "i", "s", "t", "o", "r", "y">>,
     <<"n", "a", "v">>,
     <<"a", "l">>,
     <<"b", "o", "o", "k", "s">>,
     <<"g", "o", "v", "e", "r", "n", "m", "e", "n", "t", "p", "u", "b", "l", "i", "c", "a", "t", "i", "o", "n", "s">>}

\* Longest collection list explored.
MaxTags == 2

TagLists == UNION {[1..n -> Tags] : n \in 0..MaxTags}

\* metadata["collection"]: absent, one bare string, or a list of strings.
CollectionValues ==
    {[kind |-> "missing", val |-> <<>>]}
    \cup {[kind |-> "str", val |-> t] : t \in Tags}
    \cup {[kind |-> "list", val |-> l] : l \in TagLists}

\* Date tokens and the date strings built from them: one token, or two
\* tokens around a separator.
DateTokens ==
    {<<"1", "9", "2", "7">>,
     <<"1", "9", "2", "8">>,
     <<"1", "0", "0", "0">>,
     <<"1", "9", "9", "9">>,
     <<"2", "0", "0", "5">>,
     <<"9", "2", "7">>,
     <<"1", "9", "2", "7", "0">>,
     <<"c", "1", "9", "2", "7">>}
DateSeparators == {<<" ">>, <<"-">>}
DateStrings ==
    {<<>>} \cup DateTokens
    \cup {a \o sep \o b : a \in DateTokens, sep \in DateSeparators,
                          b \in {<<"1", "9", "2", "7">>, <<"1", "9", "2", "8">>, <<"1", "9", "2", "6">>}}

\* \b of Python's re between index i - 1 and index i of str.
WordBoundaryBefore(str, i) ==
    LET before == i > 1 /\ i - 1 <= Len(str) /\ IsWordChar(str[i - 1])
        after == i >= 1 /\ i <= Len(str) /\ IsWordChar(str[i])
    IN before # after

\* Line 490: re.search(r'\b(1[0-9]{3})\b', date_str); the index of the
\* first match, 0 when there is none.
YearMatchAt(str, i) ==
    /\ i + 3 <= Len(str)
    /\ WordBoundaryBefore(str, i)
    /\ str[i] = "1"
    /\ \A k \in 1..3 : IsDigit(str[i + k])
    /\ WordBoundaryBefore(str, i + 4)

year_match(date_str) ==
    LET hits == {i \in 1..Len(date_str) : YearMatchAt(date_str, i)} IN
    IF hits = {} THEN 0 ELSE CHOOSE i \in hits : \A j \in hits : i <= j

\* str(collections) for a list of strings holding no quote or backslash.
PyStrList(tags) ==
    <<"[">> \o Join([i \in DOMAIN tags |-> <<"'">> \o tags[i] \o <<"'">>],
                    <<",", " ">>) \o <<"]">>

\* Lines 486-488: the collections as a list.
collections_of(md) ==
    IF md.collection.kind = "str" THEN <<md.collection.val>>
    ELSE md.collection.val

\* Line 508: any(tc in str(collections).lower() for tc in trusted).
in_trustedExact(collections) ==
    \E i \in DOMAIN collections :
        collections[i] \in Range(trusted_collections)
in_trusted(collections) ==
    \E k \in DOMAIN trusted_collections :
        Contains(Lower(PyStrList(collections)), trusted_collections[k])

\* Line 491: `year` is None when nothing matched; the matched years lie in
\* 1000..1999, and None is kept apart from them as a negative number.
NoYear == 0 - 1

\* Line 493: `not year or year >= 1928`.
year_unsafeInclusive(year) == year = NoYear \/ year = 0 \/ year > CopyrightCutoff
year_unsafe(year) == year = NoYear \/ year = 0 \/ year >= CopyrightCutoff

verify_copyright_safety(md) ==
    LET date_str == md.date
        collections == collections_of(md)
        at == year_match(date_str)
        year == IF at = 0 THEN NoYear
                ELSE ToInt(SubSeq(date_str, at, at + 3))
    IN  IF year_unsafe(year)
        THEN [safe |-> FALSE, confidence |-> "low", year |-> year]
        ELSE IF ~in_trusted(collections)
        THEN [safe |-> FALSE, confidence |-> "medium", year |-> year]
        ELSE [safe |-> TRUE, confidence |-> "high", year |-> year]

CopyInit ==
    /\ c_pc = "call"
    /\ metadata \in [date : DateStrings, collection : CollectionValues]
    /\ verdict = None

VerifyCopyright ==
    /\ c_pc = "call"
    /\ verdict' = verify_copyright_safety(metadata)
    /\ c_pc' = "done"
    /\ UNCHANGED metadata

DualIdle ==
    /\ d_pc = "idle" /\ raw_len = 0 /\ api_key = FALSE /\ max_rounds = 0
    /\ position = 0 /\ new_position = 0 /\ llm2_result = NoVerdict
    /\ round_num = 1 /\ finder_calls = 0 /\ verifier_calls = 0
    /\ requests_sent = 0 /\ disagreements = 0 /\ last_suggested = None
    /\ d_result = None
    /\ proposals = <<>> /\ verified = <<>> /\ reprompts = <<>>
    /\ verifier_parsed = FALSE

CopyNext ==
    VerifyCopyright
    /\ UNCHANGED <<dualVars, qualVars, skipVars, orchVars, cleanVars, restVars>>

InitCopyright ==
    CopyInit /\ DualIdle /\ QualIdle /\ SkipIdle /\ OrchIdle /\ CleanIdle
    /\ RestIdle

SpecCopyright == InitCopyright /\ [][CopyNext]_vars

(***************************************************************************)
(* Claims about verify_copyright_safety (checked under SpecCopyright)      *)
(***************************************************************************)

\* The year the date string declares: the digits of its first 4-digit
\* token starting with 1, None when there is none.
DeclaredYear(md) ==
    IF year_match(md.date) = 0 THEN NoYear
    ELSE ToInt(SubSeq(md.date, year_match(md.date), year_match(md.date) + 3))

\* The candidate's tag set and the trusted set intersect.
HasTrustedTag(md) ==
    Range(collections_of(md)) \cap Range(trusted_collections) # {}

\* C4 (as claimed): safe=true with confidence=high exactly when the year is
\* strictly below 1928 and a collection tag is trusted; a year below 1928
\* with no trusted tag gives safe=false with confidence=medium; a missing
\* year or a year >= 1928 gives safe=false with confidence=low.
C4_CopyrightStrictness ==
    c_pc = "done" =>
        LET y == DeclaredYear(metadata)
            early == y # NoYear /\ y < 1928
        IN  /\ (verdict.safe /\ verdict.confidence = "high")
                 <=> (early /\ HasTrustedTag(metadata))
            /\ (early /\ ~HasTrustedTag(metadata))
                 => (~verdict.safe /\ verdict.confidence = "medium")
            /\ ~early => (~verdict.safe /\ verdict.confidence = "low")

\* C5 (as claimed): whenever the verdict is safe, one of the candidate's
\* collection tags equals a member of the trusted-collection set.
C5_SafeImpliesTrustedTag ==
    (c_pc = "done" /\ verdict.safe) => HasTrustedTag(metadata)

\* A 4-digit token (four digits between word boundaries) starts at index i.
FourDigitTokenAt(str, i) ==
    /\ i + 3 <= Len(str)
    /\ WordBoundaryBefore(str, i)
    /\ \A k \in 0..3 : IsDigit(str[i + k])
    /\ WordBoundaryBefore(str, i + 4)

\* The number the first 4-digit token of the date string spells, None
\* when the string has no such token.
FirstYearToken(md) ==
    LET hits == {i \in 1..Len(md.date) : FourDigitTokenAt(md.date, i)} IN
    IF hits = {} THEN NoYear
    ELSE LET first == CHOOSE i \in hits : \A j \in hits : i <= j
         IN  ToInt(SubSeq(md.date, first, first + 3))

\* C14 (as claimed): the year decided on is the first 4-digit token of the
\* date string, and a date string whose first 4-digit token is 1928 or
\* later (a 20xx year included) is never judged safe, whatever follows it.
C14_FirstYearTokenDecides ==
    c_pc = "done" =>
        /\ verdict.year = FirstYearToken(metadata)
        /\ FirstYearToken(metadata) >= 1928 => ~verdict.safe

(***************************************************************************)
(* document_scraper.validate_text_quality                                  *)
(***************************************************************************)

\* Lines 92-98: QUALITY_THRESHOLDS, the ratios as fractions.
QUALITY_THRESHOLDS ==
    [english_word_ratio |-> [num |-> 90, den |-> 100],
     ascii_ratio |-> [num |-> 95, den |-> 100],
     avg_word_length |-> <<3, 12>>,
     sentence_structure |-> [num |-> 50, den |-> 100],
     max_punctuation_ratio |-> [num |-> 15, den |-> 100]]

\* Lines 388 and 408: the hard floors.
MinTextChars == 500
MinTextWords == 100
\* Line 427: one period expected per 15 words.
WordsPerSentence == 15

\* Lines 396-403.
common_words ==
    {<<"t", "h", "e">>,
     <<"b", "e">>,
     <<"t", "o">>,
     <<"o", "f">>,
     <<"a", "n", "d">>,
     <<"a">>,
     <<"i", "n">>,
     <<"t", "h", "a", "t">>,
     <<"h", "a", "v", "e">>,
     <<"i">>,
     <<"i", "t">>,
     <<"f", "o", "r">>,
     <<"n", "o", "t">>,
     <<"o", "n">>,
     <<"w", "i", "t", "h">>,
     <<"h", "e">>,
     <<"a", "s">>,
     <<"y", "o", "u">>,
     <<"d", "o">>,
     <<"a", "t">>,
     <<"t", "h", "i", "s">>,
     <<"b", "u", "t">>,
     <<"h", "i", "s">>,
     <<"b", "y">>,
     <<"f", "r", "o", "m">>,
     <<"t", "h", "e", "y">>,
     <<"w", "e">>,
     <<"s", "a", "y">>,
     <<"h", "e", "r">>,
     <<"s", "h", "e">>,
     <<"o", "r">>,
     <<"a", "n">>,
     <<"w", "i", "l", "l">>,
     <<"m", "y">>,
     <<"o", "n", "e">>,
     <<"a", "l", "l">>,
     <<"w", "o", "u", "l", "d">>,
     <<"t", "h", "e", "r", "e">>,
     <<"t", "h", "e", "i", "r">>,
     <<"w", "h", "a", "t">>,
     <<"g", "o", "v", "e", "r", "n", "m", "e", "n", "t">>,
     <<"d", "e", "p", "a", "r", "t", "m", "e", "n", "t">>,
     <<"r", "e", "p", "o", "r", "t">>,
     <<"y", "e", "a", "r">>,
     <<"s", "t", "a", "t", "e">>,
     <<"c", "i", "t", "y">>,
     <<"l", "a", "w">>,
     <<"o", "f", "f", "i", "c", "e">>,
     <<"c", "o", "m", "m", "i", "s", "s", "i", "o", "n">>,
     <<"a", "c", "t">>,
     <<"s", "e", "c", "t", "i", "o", "n">>,
     <<"s", "h", "a", "l", "l">>,
     <<"p", "o", "s", "t">>,
     <<"s", "e", "r", "v", "i", "c", "e">>}

\* string.punctuation; the double quote, the backslash and the backquote are
\* named by their code points.
Punctuation ==
    {"!", "U+0022", "#", "$", "%", "&", "'", "(", ")", "*", "+", ",", "-", ".", "/", ":", ";", "<", "=", ">", "?", "@", "[", "U+005C", "]", "^", "_", "U+0060", "{", "|", "}", "~"}

\* ord(c) < 128: every character of the model but those named by a code
\* point.
IsAscii(c) == c \notin (NonAsciiLetters \cup NonAsciiSymbols)

\* a / b >= thr and a / b <= thr for b > 0.
RatioGE(a, b, thr) == a * thr.den >= thr.num * b
RatioLE(a, b, thr) == a * thr.den <= thr.num * b

\* Line 405: re.findall(r'\b[a-zA-Z]+\b', lowered): the matches are the
\* maximal runs of ASCII letters that have no \w character on either side
\* (a run that touches a digit, an underscore or a non-ASCII letter yields
\* no match: \b fails at that end and at every position inside the run).
\* The result is the set of <<first, last>> index pairs of the matches.
WordSpans(lowered) ==
    LET n == Len(lowered)
        alpha(i) == IsAsciiAlpha(lowered[i])
        starts == {i \in 1..n : alpha(i) /\ (i = 1 \/ ~alpha(i - 1))}
        runs == {<<i, CHOOSE j \in i..n : j = n \/ ~alpha(j + 1)>> :
                    i \in starts}
    IN  {r \in runs :
            /\ (r[1] = 1 \/ ~IsWordChar(lowered[r[1] - 1]))
            /\ (r[2] = n \/ ~IsWordChar(lowered[r[2] + 1]))}

\* sum(1 for c in text if c in chars)
CountIn(text, chars) == Cardinality({i \in 1..Len(text) : text[i] \in chars})
\* sum(1 for c in text if ord(c) < 128)
CountAscii(text) == Cardinality({i \in 1..Len(text) : IsAscii(text[i])})

\* Lines 416-430: the five measurements, as integer counts.
Measure(text) ==
    LET lowered == Lower(text)
        words == WordSpans(lowered)
        word(sp) == SubSeq(lowered, sp[1], sp[2])
    IN  [total_words |-> Cardinality(words),
         english_words |-> Cardinality({sp \in words :
             word(sp) \in common_words \/ sp[2] - sp[1] + 1 > 2}),
         word_chars |-> Cardinality(UNION {sp[1]..sp[2] : sp \in words}),
         ascii_chars |-> CountAscii(text),
         sentences |-> CountIn(text, {"."}),
         punctuation_count |-> CountIn(text, Punctuation),
         length |-> Len(text)]

\* Line 424: lo <= avg_word_len <= hi.
word_len_ok(m) ==
    /\ QUALITY_THRESHOLDS.avg_word_length[1] * m.total_words <= m.word_chars
    /\ m.word_chars <= QUALITY_THRESHOLDS.avg_word_length[2] * m.total_words

\* Line 427: min(sentences / (total_words / 15), 1.0), as a fraction over
\* total_words.
sentence_ratio(m) ==
    [num |-> Min(m.sentences * WordsPerSentence, m.total_words),
     den |-> m.total_words]

\* Lines 437 and 447.
punct_okStrict(m) ==
    m.punctuation_count * QUALITY_THRESHOLDS.max_punctuation_ratio.den
        < QUALITY_THRESHOLDS.max_punctuation_ratio.num * m.length
punct_ok(m) ==
    RatioLE(m.punctuation_count, m.length,
            QUALITY_THRESHOLDS.max_punctuation_ratio)

english_ok(m) ==
    RatioGE(m.english_words, m.total_words,
            QUALITY_THRESHOLDS.english_word_ratio)
ascii_ok(m) ==
    RatioGE(m.ascii_chars, m.length, QUALITY_THRESHOLDS.ascii_ratio)
sentence_ok(m) ==
    RatioGE(sentence_ratio(m).num, sentence_ratio(m).den,
            QUALITY_THRESHOLDS.sentence_structure)

\* Lines 432-438: the scores dict; each value is a fraction num / den.
scores_of(m) ==
    [english_ratio |-> [num |-> m.english_words, den |-> m.total_words],
     ascii_ratio |-> [num |-> m.ascii_chars, den |-> m.length],
     word_length_ok |-> [num |-> IF word_len_ok(m) THEN 1 ELSE 0, den |-> 1],
     sentence_structure |-> sentence_ratio(m),
     punctuation_ok |-> [num |-> IF punct_ok(m) THEN 1 ELSE 0, den |-> 1]]

\* Line 440: sum(scores.values()) / len(scores), over the common
\* denominator 5 * total_words * length.
overall_score(m) ==
    LET sc == scores_of(m)
        t == m.total_words
        n == m.length
    IN  [num |-> sc.english_ratio.num * n + sc.ascii_ratio.num * t
                 + sc.word_length_ok.num * t * n
                 + sc.sentence_structure.num * n
                 + sc.punctuation_ok.num * t * n,
         den |-> 5 * t * n]

\* Lines 442-448.
passedByScore(m) ==
    overall_score(m).num * 100 >= 80 * overall_score(m).den
passed_of(m) ==
    /\ english_ok(m)
    /\ ascii_ok(m)
    /\ word_len_ok(m)
    /\ sentence_ok(m)
    /\ punct_ok(m)

failures_ofWithoutWordLength(m) ==
    (IF ~english_ok(m) THEN <<"Low English ratio">> ELSE <<>>)
    \o (IF ~ascii_ok(m) THEN <<"Too many non-ASCII">> ELSE <<>>)
    \o (IF ~sentence_ok(m) THEN <<"Poor sentence structure">> ELSE <<>>)
    \o (IF ~punct_ok(m) THEN <<"Excessive punctuation">> ELSE <<>>)
\* Lines 461-471: the failures listed in the reason, in the order checked.
failures_of(m) ==
    (IF ~english_ok(m) THEN <<"Low English ratio">> ELSE <<>>)
    \o (IF ~ascii_ok(m) THEN <<"Too many non-ASCII">> ELSE <<>>)
    \o (IF ~word_len_ok(m) THEN <<"Unusual word length">> ELSE <<>>)
    \o (IF ~sentence_ok(m) THEN <<"Poor sentence structure">> ELSE <<>>)
    \o (IF ~punct_ok(m) THEN <<"Excessive punctuation">> ELSE <<>>)

ZeroScore == [num |-> 0, den |-> 1]

\* Lines 385-479.  `scores` is the local dict of lines 432-438 (empty when a
\* floor rejects); `details` holds the measurements the details dict prints.
too_few_wordsOnlyNone(total_words) == total_words = 0
\* Line 408: total_words < 100.
too_few_words(total_words) == total_words < MinTextWords

validate_text_quality(text, document_type) ==
    IF text = <<>> \/ Len(text) < MinTextChars
    THEN [passed |-> FALSE, score |-> ZeroScore, scores |-> <<>>,
          details |-> <<>>, reason |-> <<"Text too short (< 500 chars)">>]
    ELSE LET m == Measure(text) IN
         IF too_few_words(m.total_words)
         THEN [passed |-> FALSE, score |-> ZeroScore, scores |-> <<>>,
               details |-> <<>>,
               reason |-> <<"Too few words extracted (< 100)">>]
         ELSE [passed |-> passed_of(m),
               score |-> overall_score(m),
               scores |-> scores_of(m),
               details |-> m,
               reason |-> IF passed_of(m)
                          THEN <<"Passed all quality checks">>
                          ELSE <<"Failed: ">> \o failures_of(m)]

\* unit repeated reps times.
Expand(unit, reps) ==
    [i \in 1..(reps * Len(unit)) |-> unit[((i - 1) % Len(unit)) + 1]]

RECURSIVE Build(_)
\* The text made of the blocks <<unit, reps>> in order.
Build(blocks) ==
    IF blocks = <<>> THEN <<>>
    ELSE Expand(blocks[1][1], blocks[1][2]) \o Build(Tail(blocks))

\* Units the sample texts are made of: good prose, prose without periods,
\* two-letter non-words, an over-long word, non-ASCII symbols, letter runs
\* that touch a non-ASCII letter or a digit, and symbol soup (one token
\* with a period, and three tokens without).
Units ==
    {<<"T", "h", "e", " ", "o", "f", "f", "i", "c", "e", " ", "s", "h", "a", "l", "l", ".", " ">>,
     <<"t", "h", "e", " ", "o", "f", "f", "i", "c", "e", " ", "s", "h", "a", "l", "l", " ", "r", "e", "p", "o", "r", "t", " ">>,
     <<"x", "q", " ", "z", "v", ".", " ">>,
     <<"i", "n", "t", "e", "r", "n", "a", "t", "i", "o", "n", "a", "l", "i", "z", "a", "t", "i", "o", "n", ".", " ">>,
     <<"U+00A7", "U+00A7", " ">>,
     <<"c", "a", "f", "U+00E9", " ", "a", "b", "c", "1", "2", "3", " ">>,
     <<"#", "$", "%", "&", ".", " ">>,
     <<"#", "$", "%", "^", "&", "*", " ", "#", "$", "%", "^", "&", "*", " ", "#", "$", "%", "^", "&", "*", " ">>}

\* Repetitions of a unit in a block.
Reps == {20, 50}

\* Largest number of blocks in a sample text.
MaxBlocks == 2

BlockLists == UNION {[1..n -> Units \X Reps] : n \in 0..MaxBlocks}

\* The document_type arguments explored (None, and a key of DOCUMENT_TYPES).
DocumentTypeArgs == {None, "court_record"}

QualInit ==
    /\ q_pc = "call"
    /\ \E blocks \in BlockLists : q_text = Build(blocks)
    /\ q_type \in DocumentTypeArgs
    /\ quality = None

ValidateQuality ==
    /\ q_pc = "call"
    /\ quality' = validate_text_quality(q_text, q_type)
    /\ q_pc' = "done"
    /\ UNCHANGED <<q_text, q_type>>

QualNext ==
    ValidateQuality
    /\ UNCHANGED <<dualVars, copyVars, skipVars, orchVars, cleanVars, restVars>>

InitQuality ==
    QualInit /\ DualIdle /\ CopyIdle /\ SkipIdle /\ OrchIdle /\ CleanIdle
    /\ RestIdle

SpecQuality == InitQuality /\ [][QualNext]_vars

(***************************************************************************)
(* Claims about validate_text_quality (checked under SpecQuality)          *)
(***************************************************************************)

\* The report is past both hard floors (500 characters, 100 words).
PastFloors ==
    /\ q_pc = "done"
    /\ quality.reason[1] \notin {"Text too short (< 500 chars)",
                                 "Too few words extracted (< 100)"}

\* The five checks, on the measurements the report carries.
EnglishClears(d) == 100 * d.english_words >= 90 * d.total_words
AsciiClears(d) == 100 * d.ascii_chars >= 95 * d.length
WordLengthClears(d) ==
    3 * d.total_words <= d.word_chars /\ d.word_chars <= 12 * d.total_words
SentenceClears(q) ==
    100 * q.scores.sentence_structure.num
        >= 50 * q.scores.sentence_structure.den
PunctuationClears(d) == 100 * d.punctuation_count <= 15 * d.length

\* C6: for every text past the hard floors, passed is true if and only if
\* all five checks clear their thresholds (english_ratio >= 0.90,
\* ascii_ratio >= 0.95, mean word length in [3, 12], sentence_structure
\* >= 0.50, punctuation ratio <= 0.15); one failing check is enough for
\* passed=false whatever the mean score.
C6_QualityAndGate ==
    PastFloors =>
        (quality.passed <=>
            /\ EnglishClears(quality.details)
            /\ AsciiClears(quality.details)
            /\ WordLengthClears(quality.details)
            /\ SentenceClears(quality)
            /\ PunctuationClears(quality.details))

\* C6 witness: a text whose only failure is punctuation (25 % of its
\* characters), the other four metrics perfect, mean score 0.8, rejected.
C6_Witness ==
    /\ PastFloors
    /\ ~quality.passed
    /\ ~PunctuationClears(quality.details)
    /\ quality.details.english_words = quality.details.total_words
    /\ quality.details.ascii_chars = quality.details.length
    /\ WordLengthClears(quality.details)
    /\ quality.scores.sentence_structure.num
           = quality.scores.sentence_structure.den
    /\ 4 * quality.details.punctuation_count = quality.details.length
    /\ quality.score.num * 10 = 8 * quality.score.den

\* The text is under one of the hard floors: empty, under 500 characters,
\* or with fewer than 100 alphabetic tokens.
BelowFloors ==
    \/ Len(q_text) < 500
    \/ Measure(q_text).total_words < 100

\* C12: a text that is empty, shorter than 500 characters or with fewer
\* than 100 alphabetic tokens gets passed=false, score 0.0 and no metric
\* values; no text below either floor passes.
C12_FloorsRejectWithZero ==
    (q_pc = "done" /\ BelowFloors) =>
        /\ ~quality.passed
        /\ quality.score.num = 0
        /\ quality.details = <<>>
        /\ quality.scores = <<>>

\* C12 witness: 500 characters or more holding between 1 and 99 alphabetic
\* tokens, rejected with score 0.0 and an empty details.
C12_Witness ==
    /\ q_pc = "done"
    /\ Len(q_text) >= 500
    /\ Measure(q_text).total_words \in 1..99
    /\ ~quality.passed
    /\ quality.score.num = 0
    /\ quality.details = <<>>

\* len(text.split()) of the text validated.
TokenCount ==
    Cardinality({i \in 1..Len(q_text) :
                    /\ q_text[i] \notin Whitespace
                    /\ (i = 1 \/ q_text[i - 1] \in Whitespace)})

\* 150 whitespace-separated tokens without any alphabetic character, 500
\* characters or more in all.
SymbolSoup ==
    /\ TokenCount = 150
    /\ Len(q_text) >= 500
    /\ \A i \in 1..Len(q_text) : ~IsAlpha(q_text[i])

\* C13 (as claimed): for 150 tokens of symbol soup the report has
\* passed=false and its failure reasons include the English-ratio failure
\* and the punctuation failure.
C13_SoupListsBothFailures ==
    (q_pc = "done" /\ SymbolSoup) =>
        /\ ~quality.passed
        /\ "Low English ratio" \in Range(quality.reason)
        /\ "Excessive punctuation" \in Range(quality.reason)

(***************************************************************************)
(* document_scraper.brutal_header_skip and ai_skip_headers                 *)
(***************************************************************************)

\* Line 191: texts shorter than this are returned unchanged.
BrutalMinLength == 5000
\* Line 254: the markers are searched in cleaned[:10000].
MarkerWindow == 10000
\* Line 110: raw texts shorter than this never reach the service.
AiMinLength == 1000
\* Line 115: the sample sent is raw_text[:8000].
AiSampleLength == 8000
\* Line 170: the band a service offset must lie in.
AiMinOffset == 100
AiMaxOffset == 10000

\* Lines 198-215: each regular expression is a literal, or two literals
\* around ".*" (the second one empty for a plain literal).
garbage_patterns ==
    <<<<<<"g", "o", "o", "g", "l", "e">>, <<>>>>,
      <<<<"d", "i", "g", "i", "t", "i", "z", "e", "d">>, <<>>>>,
      <<<<"d", "i", "b", "i", "i", "i">>, <<>>>>,
      <<<<"d", "i", "b", "i", "l", "i">>, <<>>>>,
      <<<<"a", "r", "c", "h", "i", "v", "e", ".", "o", "r", "g">>, <<>>>>,
      <<<<"h", "t", "t", "p">>, <<>>>>,
      <<<<"w", "w", "w", ".">>, <<>>>>,
      <<<<".", "c", "o", "m">>, <<>>>>,
      <<<<".", "o", "r", "g">>, <<>>>>,
      <<<<"u", "n", "i", "v", "e", "r", "s", "i", "t", "y">>, <<"l", "i", "b", "r", "a", "r", "y">>>>,
      <<<<"p", "u", "b", "l", "i", "c", " ", "d", "o", "m", "a", "i", "n">>, <<>>>>,
      <<<<"p", "r", "o", "j", "e", "c", "t", " ", "g", "u", "t", "e", "n", "b", "e", "r", "g">>, <<>>>>,
      <<<<"d", "e", "p", "o", "s", "i", "t", "e", "d", " ", "b", "y">>, <<>>>>,
      <<<<"c", "o", "l", "l", "e", "g", "e">>, <<"l", "i", "b", "r", "a", "r", "y">>>>,
      <<<<"b", "o", "o", "k", " ", "f", "r", "o", "m", " ", "t", "h", "e">>, <<>>>>,
      <<<<"c", "o", "l", "l", "e", "c", "t", "i", "o", "n", "s", " ", "o", "f">>, <<>>>>>>

\* Lines 239-249.
content_markers ==
    <<<<"A", "N", "N", "U", "A", "L", " ", "R", "E", "P", "O", "R", "T">>,
      <<"R", "E", "P", "O", "R", "T", " ", "O", "F", " ", "T", "H", "E">>,
      <<"D", "E", "P", "A", "R", "T", "M", "E", "N", "T", " ", "O", "F">>,
      <<"B", "U", "R", "E", "A", "U", " ", "O", "F">>,
      <<"S", "E", "C", "R", "E", "T", "A", "R", "Y", " ", "O", "F">>,
      <<"C", "H", "A", "P", "T", "E", "R", " ", "I">>,
      <<"S", "E", "C", "T", "I", "O", "N", " ", "1">>,
      <<"I", "N", "T", "R", "O", "D", "U", "C", "T", "I", "O", "N", ".">>,
      <<"P", "A", "R", "T", " ", "I">>>>

\* re.search(a + '.*' + b, line): a occurs and b occurs after it (a line
\* holds no newline, so '.' matches every character of it).
SearchPattern(line, pat) ==
    \E i \in 1..Len(line) :
        /\ OccursAt(line, i, pat[1])
        /\ \E j \in (i + Len(pat[1]))..(Len(line) + 1) :
               OccursAt(line, j, pat[2])

\* Lines 218-231: is the line dropped?
is_garbage(line) ==
    LET line_lower == Lower(line)
        letters == Cardinality({i \in 1..Len(line) : IsAlpha(line[i])})
        total == Len(Strip(line))
    IN  \/ \E k \in DOMAIN garbage_patterns :
               SearchPattern(line_lower, garbage_patterns[k])
        \/ (total > 0 /\ 2 * letters < total)

RECURSIVE KeepLines(_)
KeepLines(lines) ==
    IF lines = <<>> THEN <<>>
    ELSE (IF is_garbage(lines[1]) THEN <<>> ELSE <<lines[1]>>)
         \o KeepLines(Tail(lines))

\* Lines 195-236: `cleaned`.
filter_lines(text) == Join(KeepLines(SplitLines(text)), <<"\n">>)

\* Lines 254-256: the line start of the marker's first match in
\* cleaned[:10000] (re.IGNORECASE), -1 when the marker does not match.
marker_line_start(cleaned, marker) ==
    LET at == Find(Lower(SliceTo(cleaned, MarkerWindow)), Lower(marker)) IN
    IF at < 0 THEN 0 - 1
    ELSE SetMax({0} \cup {i \in 1..at : cleaned[i] = "\n"})

\* Lines 251-258: `best_start` after the loop over the markers.
best_start_of(cleaned) ==
    SetMax({0} \cup {marker_line_start(cleaned, content_markers[k]) :
                        k \in DOMAIN content_markers})

brutal_header_skipUnguarded(text) ==
    LET cleaned == filter_lines(text)
        best_start == best_start_of(cleaned)
    IN  IF best_start > 0 THEN SliceFrom(cleaned, best_start) ELSE cleaned
\* Lines 185-265.
brutal_header_skip(text) ==
    IF Len(text) < BrutalMinLength THEN text
    ELSE LET cleaned == filter_lines(text)
             best_start == best_start_of(cleaned)
         IN  IF best_start > 0 THEN SliceFrom(cleaned, best_start)
             ELSE cleaned

\* Line 165: re.search(r'\d+', result): the first maximal run of digits as
\* a sequence, <<>> when there is none.
first_digits(result) ==
    LET ds == {i \in 1..Len(result) : IsDigit(result[i])} IN
    IF ds = {} THEN <<>>
    ELSE LET a == SetMin(ds)
             b == CHOOSE j \in a..Len(result) :
                      /\ \A k \in a..j : IsDigit(result[k])
                      /\ (j = Len(result) \/ ~IsDigit(result[j + 1]))
         IN  SubSeq(result, a, b)

\* Line 170.
offset_accepted(start_pos, raw_text) ==
    /\ AiMinOffset <= start_pos /\ start_pos <= AiMaxOffset
    /\ start_pos < Len(raw_text)

\* Line 115.
sample_of(raw_text) == SliceTo(raw_text, Min(AiSampleLength, Len(raw_text)))

\* What the service does with a request:
\*   "exception"  requests.post raises (timeout, connection error)
\*   "status"     a reply whose status_code is not 200
\*   "malformed"  status 200, but response.json()["choices"][0]["message"]
\*                ["content"].strip() raises
\*   "ok"         status 200 and a content string
NoOffset == 0 - 1

\* The fallback of lines 112 and 182.
fallbackIdentity(raw_text) == raw_text
fallback(raw_text) == brutal_header_skip(raw_text)

\* Lines 101-182.  The record holds the returned string (text), whether a
\* request was sent and with which sample length, whether the service's
\* offset was used, and that offset.
ai_skip_headers(raw_text, key, response) ==
    IF ~key \/ Len(raw_text) < AiMinLength
    THEN [text |-> fallback(raw_text), requested |-> FALSE,
          sample_len |-> 0, used_ai |-> FALSE, start_pos |-> NoOffset]
    ELSE LET digits == IF response.kind = "ok"
                       THEN first_digits(Strip(response.content)) ELSE <<>>
             start_pos == IF digits = <<>> THEN NoOffset ELSE ToInt(digits)
         IN  IF digits # <<>> /\ offset_accepted(start_pos, raw_text)
             THEN [text |-> SliceFrom(raw_text, start_pos),
                   requested |-> TRUE,
                   sample_len |-> Len(sample_of(raw_text)),
                   used_ai |-> TRUE, start_pos |-> start_pos]
             ELSE [text |-> fallback(raw_text), requested |-> TRUE,
                   sample_len |-> Len(sample_of(raw_text)),
                   used_ai |-> FALSE, start_pos |-> start_pos]

\* Pieces the sample raw texts are made of.
scan_stamp ==
    <<"D", "i", "g", "i", "t", "i", "z", "e", "d", " ", "b", "y", " ", "G", "o", "o", "g", "l", "e", "\n">>
library_stamp ==
    <<"F", "r", "o", "m", " ", "t", "h", "e", " ", "U", "n", "i", "v", "e", "r", "s", "i", "t", "y", " ", "o", "f", " ", "M", "i", "c", "h", "i", "g", "a", "n", " ", "L", "i", "b", "r", "a", "r", "y", "\n">>
ornament ==
    <<"*", " ", "*", " ", "*", " ", "1", " ", "2", " ", "3", " ", "*", " ", "*", " ", "*", "\n">>
prose ==
    <<"t", "h", "e", " ", "o", "f", "f", "i", "c", "e", " ", "s", "h", "a", "l", "l", " ", "r", "e", "p", "o", "r", "t", ".", " ">>
chapter_line ==
    <<"\n", "C", "H", "A", "P", "T", "E", "R", " ", "I", ".", " ">>
report_line ==
    <<"\n", "A", "n", "n", "u", "a", "l", " ", "R", "e", "p", "o", "r", "t", " ", "o", "f", " ", "t", "h", "e", " ", "b", "u", "r", "e", "a", "u", ".", " ">>
section_line ==
    <<"S", "E", "C", "T", "I", "O", "N", " ", "1", ".", " ">>

\* The raw texts explored, as block lists for Build:
\*   1. an empty text
\*   2. short: no request is sent
\*   3. long enough for a request, too short for the heuristic
\*   4. stamps and an ornament line before a chapter heading
\*   5. one long line without stamps or markers
\*   6. longer than the marker window, a stamp and no marker
\*   7. two markers on different lines
\*   8. a marker after the marker window
\*   9. a stamp on a line of its own between two pages of prose
RawTextBlocks ==
    {<<>>,
     <<<<scan_stamp, 1>>, <<prose, 10>>>>,
     <<<<scan_stamp, 1>>, <<prose, 60>>>>,
     <<<<scan_stamp, 1>>, <<library_stamp, 1>>, <<ornament, 1>>, <<prose, 100>>, <<chapter_line, 1>>, <<prose, 120>>>>,
     <<<<prose, 220>>>>,
     <<<<scan_stamp, 1>>, <<prose, 401>>>>,
     <<<<section_line, 1>>, <<prose, 100>>, <<report_line, 1>>, <<prose, 150>>>>,
     <<<<prose, 420>>, <<chapter_line, 1>>, <<prose, 10>>>>,
     <<<<prose, 100>>, <<<<"\n">>, 1>>, <<scan_stamp, 1>>, <<prose, 120>>>>}

RawTexts == {Build(blocks) : blocks \in RawTextBlocks}

RECURSIVE DigitsOf(_)
\* The decimal digits of a natural number.
DigitsOf(n) ==
    IF n < 10 THEN <<DigitChars[n + 1]>>
    ELSE DigitsOf(n \div 10) \o <<DigitChars[(n % 10) + 1]>>

\* Offsets the service answers with: around both ends of the band, and
\* around the lengths of the sample texts.
ServiceOffsets ==
    {0, AiMinOffset - 1, AiMinOffset, 1519, 1520, AiSampleLength,
     AiMaxOffset, AiMaxOffset + 1}

\* Contents of a 200 reply: a bare number, a number inside a sentence, a
\* number in whitespace, two numbers, words only, nothing.
ServiceContents ==
    {DigitsOf(n) : n \in ServiceOffsets}
    \cup {<<"P", "o", "s", "i", "t", "i", "o", "n", ":", " ">> \o DigitsOf(n) \o <<".">> :
             n \in {AiMinOffset - 1, 1519}}
    \cup {<<" ">> \o DigitsOf(AiMinOffset) \o <<"\n">>,
          DigitsOf(AiMinOffset) \o <<" ", "o", "r", " ">> \o DigitsOf(0),
          <<"n", "o", " ", "h", "e", "a", "d", "e", "r", " ", "f", "o", "u", "n", "d">>,
          <<>>}

ServiceResponses ==
    {[kind |-> k, content |-> <<>>] :
         k \in {"exception", "status", "malformed"}}
    \cup {[kind |-> "ok", content |-> c] : c \in ServiceContents}

\* Without a key no request is sent and the service is never asked.
NotAsked == [kind |-> "unused", content |-> <<>>]

SkipInit ==
    /\ s_pc = "call"
    /\ s_raw_text \in RawTexts
    /\ s_key \in BOOLEAN
    /\ s_response \in (IF s_key THEN ServiceResponses ELSE {NotAsked})
    /\ s_out = None

AiSkipHeaders ==
    /\ s_pc = "call"
    /\ s_out' = ai_skip_headers(s_raw_text, s_key, s_response)
    /\ s_pc' = "done"
    /\ UNCHANGED <<s_raw_text, s_key, s_response>>

SkipNext ==
    AiSkipHeaders
    /\ UNCHANGED <<dualVars, copyVars, qualVars, orchVars, cleanVars, restVars>>

InitSkip ==
    SkipInit /\ DualIdle /\ CopyIdle /\ QualIdle /\ OrchIdle /\ CleanIdle
    /\ RestIdle

SpecSkip == InitSkip /\ [][SkipNext]_vars

(***************************************************************************)
(* Claims about ai_skip_headers (checked under SpecSkip)                   *)
(***************************************************************************)

\* The integer a 200 reply offers (NoOffset when it holds no digit).
OfferedOffset ==
    IF s_response.kind = "ok" /\ first_digits(s_response.content) # <<>>
    THEN ToInt(first_digits(s_response.content))
    ELSE NoOffset

\* The service is unusable for this call: no key, a short text, a request
\* that raises, a status other than 200, a body without the content field,
\* a content without an integer, or an integer outside 100..10000 or not
\* below the length of the raw text.
ServiceUnusable ==
    \/ ~s_key
    \/ Len(s_raw_text) < 1000
    \/ s_response.kind \in {"exception", "status", "malformed"}
    \/ OfferedOffset = NoOffset
    \/ OfferedOffset < 100
    \/ OfferedOffset > 10000
    \/ OfferedOffset >= Len(s_raw_text)

\* C8: whenever the service is unusable, the call returns (the exceptions of
\* the request and of the parsing are caught) and what it returns is exactly
\* brutal_header_skip(raw_text).
C8_FallbackIsBrutalSkip ==
    /\ s_pc \in {"call", "done", "idle"}
    /\ (s_pc = "done" /\ ServiceUnusable) =>
           /\ ~s_out.used_ai
           /\ s_out.text = brutal_header_skip(s_raw_text)

\* A request was sent, the reply offered an integer outside the band, and
\* the heuristic result returned differs from the raw text.
C8_Witness ==
    /\ s_pc = "done"
    /\ s_key /\ s_response.kind = "ok"
    /\ OfferedOffset > 10000
    /\ s_out.requested /\ ~s_out.used_ai
    /\ s_out.text # s_raw_text

\* C15 (as claimed): the service's offset is used only when it lies in
\* 100..10000 and is below the length of the sample sent, which is the
\* first min(8000, len(raw_text)) characters; any other offset gives the
\* heuristic fallback.
C15_OffsetBelowSampleLength ==
    (s_pc = "done" /\ s_out.used_ai) =>
        /\ 100 <= s_out.start_pos /\ s_out.start_pos <= 10000
        /\ s_out.start_pos < Min(8000, Len(s_raw_text))

\* The call ended in brutal_header_skip on a text of 5000 characters or
\* more, so that the lines were filtered and the markers searched.
HeuristicRan ==
    s_pc = "done" /\ ~s_out.used_ai /\ Len(s_raw_text) >= 5000

\* The 0-based positions at which the markers first match in the first
\* 10000 characters of the filtered text.
MarkerPositions(cleaned) ==
    {Find(Lower(SliceTo(cleaned, 10000)), Lower(content_markers[k])) :
        k \in DOMAIN content_markers} \ {0 - 1}

\* The start of the line holding position at of cleaned.
LineStartOf(cleaned, at) ==
    SetMax({0} \cup {i \in 1..at : cleaned[i] = "\n"})

\* C16 (as claimed): when a marker occurs in the first 10000 characters of
\* the filtered text, the returned content starts at the line holding the
\* earliest marker occurrence (the smallest match position of all markers).
C16_EarliestMarkerLine ==
    HeuristicRan =>
        LET cleaned == filter_lines(s_raw_text)
            found == MarkerPositions(cleaned)
        IN  found # {} =>
                s_out.text
                    = SliceFrom(cleaned, LineStartOf(cleaned, SetMin(found)))

\* C17 (as claimed): when no marker is found in a text of 5000 characters
\* or more, the first 5000 characters are skipped (counted in the text, or
\* in the filtered text); such a text is not returned from offset 0.
C17_FixedPrefixSkipped ==
    HeuristicRan =>
        LET cleaned == filter_lines(s_raw_text) IN
        MarkerPositions(cleaned) = {} =>
            s_out.text \in {SliceFrom(s_raw_text, 5000),
                            SliceFrom(cleaned, 5000)}

\* C18: brutal_header_skip returns for every text (the call never ends in
\* an exception), and a text shorter than 5000 characters, the empty string
\* included, comes back unchanged.
C18_ShortTextUnchanged ==
    /\ s_pc \in {"idle", "call", "done"}
    /\ (s_pc = "done" /\ ~s_out.used_ai /\ Len(s_raw_text) < 5000) =>
           s_out.text = s_raw_text

\* C18 witness: a text under 5000 characters with a line the filter would
\* drop, handed to the heuristic after a rejected offset, returned as it was.
C18_Witness ==
    /\ s_pc = "done"
    /\ s_out.requested /\ ~s_out.used_ai
    /\ Len(s_raw_text) \in 1..4999
    /\ filter_lines(s_raw_text) # s_raw_text
    /\ s_out.text = s_raw_text

(***************************************************************************)
(* document_scraper.clean_document_text                                    *)
(***************************************************************************)

RECURSIVE FlattenRange(_, _, _)
\* The concatenation pieces[lo] \o ... \o pieces[hi].  Every re.sub below
\* is written as the piece each character of the input contributes.
FlattenRange(pieces, lo, hi) ==
    IF lo > hi THEN <<>>
    ELSE IF lo = hi THEN pieces[lo]
    ELSE LET mid == (lo + hi) \div 2 IN
         FlattenRange(pieces, lo, mid) \o FlattenRange(pieces, mid + 1, hi)

\* Line 358: re.sub(r'\n{3,}', '\n\n', text).
sub_newlines(text) ==
    FlattenRange([i \in 1..Len(text) |->
        IF /\ text[i] = "\n" /\ i >= 3
           /\ text[i - 1] = "\n" /\ text[i - 2] = "\n"
        THEN <<>> ELSE <<text[i]>>], 1, Len(text))

\* Line 359: re.sub(r'[ \t]+', ' ', text).
sub_spaces(text) ==
    FlattenRange([i \in 1..Len(text) |->
        IF text[i] \in {" ", "\t"}
        THEN (IF i > 1 /\ text[i - 1] \in {" ", "\t"} THEN <<>> ELSE <<" ">>)
        ELSE <<text[i]>>], 1, Len(text))

\* Line 360: re.sub(r'-\n', '', text).
sub_hyphen_breaks(text) ==
    FlattenRange([i \in 1..Len(text) |->
        IF \/ (text[i] = "-" /\ i < Len(text) /\ text[i + 1] = "\n")
           \/ (text[i] = "\n" /\ i > 1 /\ text[i - 1] = "-")
        THEN <<>> ELSE <<text[i]>>], 1, Len(text))

\* Line 361: re.sub(r'\n([a-z])', r' \1', text).
sub_wrapped_lines(text) ==
    FlattenRange([i \in 1..Len(text) |->
        IF text[i] = "\n" /\ i < Len(text) /\ IsLower(text[i + 1])
        THEN <<" ">> ELSE <<text[i]>>], 1, Len(text))

\* Line 362: text.replace('|', 'I').
replace_pipes(text) ==
    FlattenRange([i \in 1..Len(text) |->
        IF text[i] = "|" THEN <<"I">> ELSE <<text[i]>>], 1, Len(text))

\* Lines 363-364: both character classes of the source hold the ASCII
\* quote only, which is replaced by itself.
double_quote_class == {"U+0022"}
single_quote_class == {"'"}
normalize_quotes(text) ==
    FlattenRange([i \in 1..Len(text) |->
        IF text[i] \in double_quote_class THEN <<"U+0022">>
        ELSE IF text[i] \in single_quote_class THEN <<"'">>
        ELSE <<text[i]>>], 1, Len(text))

\* Line 365: re.sub(r'\[.*?\]', '', text).  A character is removed when an
\* opening bracket at or before it reaches a closing bracket at or after it
\* within the line, with no closing bracket in between.
strip_brackets(text) ==
    LET opens == {i \in 1..Len(text) : text[i] = "["}
        closes == {i \in 1..Len(text) : text[i] = "]"}
        removed(j) ==
            \E m \in opens : \E c \in closes :
                /\ m <= j /\ j <= c
                /\ \A k \in m..(c - 1) : text[k] # "\n"
                /\ \A k \in m..(j - 1) : text[k] # "]"
    IN  IF opens = {} \/ closes = {} THEN text
        ELSE FlattenRange([i \in 1..Len(text) |->
                 IF removed(i) THEN <<>> ELSE <<text[i]>>], 1, Len(text))

\* Line 366: re.sub(r'\d{1,3}\s*$', '', text, flags=re.MULTILINE).  A match
\* is the last one to three digits of a run of digits, then the whitespace
\* after it: all of it when it reaches the end of the text, else up to its
\* last newline (which stays); there is no match when that whitespace has
\* no newline and does not reach the end.
strip_trailing_numbers(text) ==
    LET n == Len(text)
        ws(k) == text[k] \in Whitespace
        \* last index of the whitespace run that starts at a (a - 1 if none)
        run_end(a) == CHOOSE r \in (a - 1)..n :
                          /\ \A k \in a..r : ws(k)
                          /\ (r = n \/ ~ws(r + 1))
        \* the digits ending at e are followed by a line end
        closes_line(e) ==
            \/ run_end(e + 1) = n
            \/ \E k \in (e + 1)..run_end(e + 1) : text[k] = "\n"
        digit_removed(j) ==
            \E e \in j..Min(j + 2, n) :
                /\ \A k \in j..e : IsDigit(text[k])
                /\ (e = n \/ ~IsDigit(text[e + 1]))
                /\ closes_line(e)
        \* first index of the whitespace run that holds j
        run_start(j) == CHOOSE a \in 1..j :
                            /\ \A k \in a..j : ws(k)
                            /\ (a = 1 \/ ~ws(a - 1))
        space_removed(j) ==
            /\ (ws(j - 1) \/ IsDigit(text[j - 1]))
            /\ run_start(j) > 1 /\ IsDigit(text[run_start(j) - 1])
            /\ \/ run_end(j) = n
               \/ \E k \in (j + 1)..run_end(j) : text[k] = "\n"
    IN  FlattenRange([i \in 1..n |->
            IF IsDigit(text[i]) THEN (IF digit_removed(i) THEN <<>>
                                      ELSE <<text[i]>>)
            ELSE IF ws(i) /\ i > 1 THEN (IF space_removed(i) THEN <<>>
                                         ELSE <<text[i]>>)
            ELSE <<text[i]>>], 1, n)

RECURSIVE KeepLongLines(_)
\* Line 370.
KeepLongLines(lines) ==
    IF lines = <<>> THEN <<>>
    ELSE (IF Len(Strip(lines[1])) > 20 \/ Strip(lines[1]) = <<>>
          THEN <<lines[1]>> ELSE <<>>)
         \o KeepLongLines(Tail(lines))

\* Lines 369-371.
drop_short_lines(text) == Join(KeepLongLines(SplitLines(text)), <<"\n">>)

\* re.sub(r'\bOLD\b', new, text, flags=re.IGNORECASE) for an OLD that
\* begins and ends with a word character (lines 375-377, 381-382).
sub_spelling(text, old, new) ==
    LET lowered == Lower(text)
        starts == {i \in 1..(Len(text) - Len(old) + 1) :
                      /\ lowered[i] = old[1]
                      /\ OccursAt(lowered, i, old)
                      /\ (i = 1 \/ ~IsWordChar(text[i - 1]))
                      /\ (i + Len(old) > Len(text)
                          \/ ~IsWordChar(text[i + Len(old)]))}
    IN  IF starts = {} THEN text
        ELSE FlattenRange([i \in 1..Len(text) |->
                 IF i \in starts THEN new
                 ELSE IF \E b \in starts : b < i /\ i < b + Len(old)
                      THEN <<>> ELSE <<text[i]>>], 1, Len(text))

\* re.sub(r'\b&\b', 'and', text): an ampersand between two word characters
\* (lines 378, 381-382).
sub_ampersand(text) ==
    FlattenRange([i \in 1..Len(text) |->
        IF /\ text[i] = "&" /\ 1 < i /\ i < Len(text)
           /\ IsWordChar(text[i - 1]) /\ IsWordChar(text[i + 1])
        THEN <<"a", "n", "d">> ELSE <<text[i]>>], 1, Len(text))

\* Lines 374-382, in the order of old_spellings.
normalize_spellings(text) ==
    sub_ampersand(
      sub_spelling(
        sub_spelling(
          sub_spelling(text, <<"t", "o", "-", "d", "a", "y">>, <<"t", "o", "d", "a", "y">>),
          <<"t", "o", "-", "m", "o", "r", "r", "o", "w">>, <<"t", "o", "m", "o", "r", "r", "o", "w">>),
        <<"t", "o", "-", "n", "i", "g", "h", "t">>, <<"t", "o", "n", "i", "g", "h", "t">>))

\* Lines 357-384: the cleanup applied to the text after header skipping.
basic_cleanup(text) ==
    Strip(normalize_spellings(drop_short_lines(strip_trailing_numbers(
      strip_brackets(normalize_quotes(replace_pipes(sub_wrapped_lines(
        sub_hyphen_breaks(sub_spaces(sub_newlines(text)))))))))))

\* Lines 340-384.
clean_document_text(raw_text, key, response) ==
    IF raw_text = <<>> THEN <<>>
    ELSE basic_cleanup(ai_skip_headers(raw_text, key, response).text)

\* len(text.split()): the number of whitespace-delimited words.
word_count_of(text) ==
    Cardinality({i \in 1..Len(text) :
                    /\ text[i] \notin Whitespace
                    /\ (i = 1 \/ text[i - 1] \in Whitespace)})

(***************************************************************************)
(* clean_document_text applied to a text and then to its own output        *)
(***************************************************************************)

\* Pieces of scanned text that the passes of the cleanup act on.
body_line == <<"T", "h", "e", " ", "o", "f", "f", "i", "c", "e", " ", "s", "h", "a", "l", "l", " ", "r", "e", "p", "o", "r", "t", " ", "t", "o", " ", "t", "h", "e", " ", "b", "o", "a", "r", "d">>
page_number == <<" ", "1", "2", "3", "4">>
folio_number == <<" ", "1", "2">>
line_break == <<"\n">>
editor_note == <<" ", "[", "s", "e", "e", " ", "n", "o", "t", "e", "]">>
old_spelling == <<" ", "t", "o", "-", "d", "a", "y">>
running_head == <<"s", "h", "o", "r", "t">>
ocr_pipe == <<" ", "|", " ">>

CleanPieces ==
    {body_line, page_number, folio_number, line_break, editor_note,
     old_spelling, running_head, ocr_pipe}

\* The largest number of pieces in a text.
MaxPieces == 2

PieceLists == UNION {[1..n -> CleanPieces] : n \in 1..MaxPieces}

CleanTexts == {FlattenRange(pl, 1, Len(pl)) : pl \in PieceLists}

CleanInit ==
    /\ k_pc = "start"
    /\ k_text \in CleanTexts
    /\ k_once = <<>>
    /\ k_twice = <<>>

\* clean_document_text(raw_text) without a Groq key.
CleanOnce ==
    /\ k_pc = "start"
    /\ k_once' = clean_document_text(k_text, FALSE, NotAsked)
    /\ k_pc' = "once"
    /\ UNCHANGED <<k_text, k_twice>>

\* clean_document_text applied to the text it returned.
CleanTwice ==
    /\ k_pc = "once"
    /\ k_twice' = clean_document_text(k_once, FALSE, NotAsked)
    /\ k_pc' = "twice"
    /\ UNCHANGED <<k_text, k_once>>

CleanNext ==
    (CleanOnce \/ CleanTwice)
    /\ UNCHANGED <<dualVars, copyVars, qualVars, skipVars, orchVars, restVars>>

InitClean ==
    CleanInit /\ DualIdle /\ CopyIdle /\ QualIdle /\ SkipIdle /\ OrchIdle
    /\ RestIdle

SpecClean == InitClean /\ [][CleanNext]_vars

(***************************************************************************)
(* Claims about the cleanup                                                *)
(***************************************************************************)

\* C11 (as claimed): the cleanup is idempotent: cleaning the text that the
\* cleanup returned gives that same text again.
C11_CleanupIdempotent == k_pc = "twice" => k_twice = k_once

(***************************************************************************)
(* document_scraper.select_random_document and what it calls               *)
(***************************************************************************)

\* Lines 20-89: the keys of DOCUMENT_TYPES.
DOCUMENT_TYPE_KEYS ==
    {"government_report", "postal_regulations", "civil_service",
     "style_manual", "city_ordinance", "court_record"}

\* Line 614.
max_attempts == 10
\* Line 661: get_document_images(archive_id, max_images=15).
max_images == 15

\* Largest number of candidates a search returns in the model (the request
\* asks for 20 rows; more than max_attempts is what matters).
MaxDocs == 11

\* ---- the archive: candidates and their text files ----

page_line ==
    <<"T", "h", "e", " ", "o", "f", "f", "i", "c", "e", " ", "s", "h", "a", "l", "l", " ", "r", "e", "p", "o", "r", "t", " ", "t", "o", " ", "t", "h", "e", " ", "b", "o", "a", "r", "d", " ", "o", "f", " ", "t", "r", "a", "d", "e", " ", "t", "o", "-", "d", "a", "y", ".", " ", "1", "2", "\n">>
closing_line ==
    <<"T", "h", "e", " ", "b", "o", "a", "r", "d", " ", "s", "h", "a", "l", "l", " ", "r", "e", "p", "o", "r", "t", " ", "[", "s", "i", "c", "]", " ", "t", "o", " ", "t", "h", "e", " ", "o", "f", "f", "i", "c", "e", " ", "|", " ", "d", "u", "l", "y", ".", "\n">>
title_line ==
    <<"R", "E", "P", "O", "R", "T", " ", "N", "o", ".", " ", "7", "\n">>
not_found_page ==
    <<"<", "H", "T", "M", "L", ">", "<", "b", "o", "d", "y", ">", "N", "o", "t", " ", "f", "o", "u", "n", "d", "<", "/", "b", "o", "d", "y", ">", "<", "/", "h", "t", "m", "l", ">">>
word_soup ==
    <<"x", "q", " ", "z", "v", ".", " ">>

\* A candidate of the search result: the fields of the archive's record
\* that the code reads (identifier empty when the record has none).
Candidate(identifier, date, tag) ==
    [identifier |-> identifier, title |-> identifier, date |-> date,
     collection |-> [kind |-> "list", val |-> <<tag>>]]

year_1900 == <<"1", "9", "0", "0">>
year_1928 == <<"1", "9", "2", "8">>
tag_americana == trusted_collections[3]
tag_books == <<"b", "o", "o", "k", "s">>

no_id_doc == Candidate(<<>>, year_1900, tag_americana)
late_doc == Candidate(<<"l", "a", "t", "e">>, year_1928, tag_americana)
untrusted_doc == Candidate(<<"u", "n", "t", "r", "u", "s", "t", "e", "d">>, year_1900, tag_books)
no_text_doc == Candidate(<<"n", "o", "t", "e", "x", "t">>, year_1900, tag_americana)
empty_text_doc == Candidate(<<"e", "m", "p", "t", "y">>, year_1900, tag_americana)
short_doc == Candidate(<<"s", "h", "o", "r", "t">>, year_1900, tag_americana)
soup_doc == Candidate(<<"s", "o", "u", "p">>, year_1900, tag_americana)
good_doc == Candidate(<<"g", "o", "o", "d">>, year_1900, tag_americana)
stamped_doc == Candidate(<<"s", "t", "a", "m", "p", "e", "d">>, year_1900, tag_americana)

\* The raw texts of the archive: 120 words after cleanup, 119 words after
\* cleanup, two-letter non-words, and a text long enough for the service.
good_text == Build(<<<<title_line, 1>>, <<page_line, 12>>>>)
short_text ==
    Build(<<<<title_line, 1>>, <<page_line, 11>>,
            <<closing_line, 1>>>>)
soup_text == Build(<<<<word_soup, 75>>>>)
stamped_text == Build(<<<<scan_stamp, 1>>, <<page_line, 20>>>>)

FetchFailed(kind) == [kind |-> kind, text |-> <<>>]
Fetched(body) == [kind |-> "ok", text |-> body]

\* What the archive answers to the requests for the three file formats of
\* an identifier (lines 322-335): "exception" when requests.get raises,
\* "status" for a status other than 200, "ok" with the body.
archive_responses(archive_id) ==
    IF archive_id = no_text_doc.identifier
    THEN <<FetchFailed("exception"), FetchFailed("status"),
           Fetched(not_found_page)>>
    ELSE IF archive_id = empty_text_doc.identifier
    THEN <<FetchFailed("status"), Fetched(<<>>), Fetched(good_text)>>
    ELSE IF archive_id = short_doc.identifier
    THEN <<Fetched(short_text), Fetched(good_text), Fetched(good_text)>>
    ELSE IF archive_id = soup_doc.identifier
    THEN <<Fetched(soup_text), Fetched(good_text), Fetched(good_text)>>
    ELSE IF archive_id = stamped_doc.identifier
    THEN <<Fetched(not_found_page), FetchFailed("status"),
           Fetched(stamped_text)>>
    ELSE <<Fetched(good_text), Fetched(good_text), Fetched(good_text)>>

\* Lines 319-337.  found is FALSE for the None of line 337.
get_document_text(archive_id) ==
    LET responses == archive_responses(archive_id)
        usable(k) ==
            /\ responses[k].kind = "ok"
            /\ ~Contains(Lower(SliceTo(responses[k].text, 100)),
                         <<"<", "h", "t", "m", "l">>)
        hits == {k \in DOMAIN responses : usable(k)}
    IN  IF hits = {} THEN [found |-> FALSE, text |-> <<>>]
        ELSE [found |-> TRUE, text |-> responses[SetMin(hits)].text]

\* Lines 524-537: the URLs, as the identifier, the kind of path and the
\* page number.
get_document_images(archive_id, limit) ==
    <<[archive_id |-> archive_id, path |-> "services/img", page |-> 0]>>
    \o FlattenRange([i \in 1..limit |->
           <<[archive_id |-> archive_id, path |-> "page/n", page |-> i],
             [archive_id |-> archive_id, path |-> "jp2/page_", page |-> i]>>],
         1, limit)

\* Lines 540-560 (creator, description and subjects are copied like title).
extract_document_metadata(cleaned, archive_metadata) ==
    LET at == year_match(archive_metadata.date) IN
    [archive_id |-> IF archive_metadata.identifier = <<>>
                    THEN <<"u", "n", "k", "n", "o", "w", "n">>
                    ELSE archive_metadata.identifier,
     title |-> archive_metadata.title,
     date |-> archive_metadata.date,
     collections |-> archive_metadata.collection.val,
     word_count |-> word_count_of(cleaned),
     year |-> IF at = 0 THEN NoYear
              ELSE ToInt(SubSeq(archive_metadata.date, at, at + 3))]

search_internet_archiveAnyStatus(document_type, outcome) ==
    IF document_type \notin DOCUMENT_TYPE_KEYS THEN <<>> ELSE outcome.docs
\* Lines 268-316: the docs search_internet_archive returns.
search_internet_archive(document_type, outcome) ==
    IF document_type \notin DOCUMENT_TYPE_KEYS THEN <<>>
    ELSE IF outcome.kind = "ok" THEN outcome.docs
    ELSE <<>>

\* Lines 275-278 and 302: requests.get is reached unless the type is unknown.
search_request_sentAlways(document_type) == TRUE
search_request_sent(document_type) == document_type \in DOCUMENT_TYPE_KEYS

\* ---- the gates of the loop ----

\* Line 616: docs[:max_attempts].
attempt_windowAll(docs) == docs
attempt_window(docs) == SliceTo(docs, max_attempts)

\* Line 627.
copyright_rejectedNever(copyright_check) == FALSE
copyright_rejected(copyright_check) == ~copyright_check.safe

\* Line 635: `if not text` (None or the empty string).
no_text(fetched) == ~fetched.found \/ fetched.text = <<>>

\* Line 643.
too_short(word_count, min_words) == word_count < min_words

\* Line 651.
quality_rejectedNever(report) == FALSE
quality_rejected(report) == ~report.passed

\* ---- the inputs explored ----

\* The candidates: seven that fail a gate (no identifier, copyright twice,
\* text fetch twice, word count, quality) and two that pass every gate.
Candidates ==
    <<no_id_doc, late_doc, untrusted_doc, no_text_doc, empty_text_doc,
      short_doc, soup_doc, good_doc, stamped_doc>>
FailingCandidates == {Candidates[k] : k \in 1..7}

Repeat(doc, n) == SubSeq([i \in 1..n |-> doc], 1, n)

\* The orders docs can be in: n copies of one failing candidate; n
\* candidates of which one, at any place, passes every gate; every pair of
\* candidates.
DocOrders ==
    {Repeat(d, n) : d \in FailingCandidates, n \in 1..MaxDocs}
    \cup UNION {{[Repeat(late_doc, n) EXCEPT ![p] = good_doc] : p \in 1..n} :
                   n \in 1..MaxDocs}
    \cup {<<a, b>> : a \in Range(Candidates), b \in Range(Candidates)}

\* The lists the search returns: one order of each.
SearchResults ==
    {Repeat(d, n) : d \in FailingCandidates, n \in 1..MaxDocs}
    \cup {<<good_doc>> \o Repeat(late_doc, n - 1) : n \in 1..MaxDocs}
    \cup UNION {{<<Candidates[j], Candidates[k]>> :
                     k \in j..Len(Candidates)} : j \in DOMAIN Candidates}

\* What the archive's search does: the request raises (a timeout is one of
\* the exceptions of requests), the status is not 200 (with a body listing
\* nothing, or listing a document), or the reply lists docs (possibly none).
SearchOutcomes ==
    {[kind |-> k, docs |-> <<>>] : k \in {"exception", "status"}}
    \cup {[kind |-> "status", docs |-> <<good_doc>>]}
    \cup {[kind |-> "ok", docs |-> d] : d \in SearchResults \cup {<<>>}}

\* The key and the behaviour of the Groq service during one call: no key,
\* a service whose requests fail, a service that answers offset 100.
ServiceSettings ==
    {<<FALSE, NotAsked>>,
     <<TRUE, [kind |-> "exception", content |-> <<>>]>>,
     <<TRUE, [kind |-> "ok", content |-> DigitsOf(AiMinOffset)]>>}

\* min_words arguments: the word count of good_text after cleanup.
MinWordsArgs == {120}

\* document_type arguments other than a key: None and an unknown name.
OtherTypeArgs == {None, "cooking_recipe"}

NotFetched == [found |-> FALSE, text |-> <<>>]

\* The outcomes explored for a call of search_internet_archive alone.
DirectSearchOutcomes ==
    {o \in SearchOutcomes : o.docs \in {<<>>, <<good_doc>>}}

\* A call of select_random_document ("start"), or a call of
\* search_internet_archive alone ("search_call").
OrchInit ==
    /\ \/ /\ o_pc = "start"
          /\ \/ /\ o_type = "court_record"
                /\ o_search \in SearchOutcomes
             \/ /\ o_type \in OtherTypeArgs
                /\ o_search \in {[kind |-> "exception", docs |-> <<>>],
                                 [kind |-> "ok", docs |-> <<good_doc>>]}
          /\ \E setting \in ServiceSettings :
                 o_key = setting[1] /\ o_service = setting[2]
       \/ /\ o_pc = "search_call"
          /\ o_type \in DOCUMENT_TYPE_KEYS \cup OtherTypeArgs
          /\ o_search \in DirectSearchOutcomes
          /\ o_key = FALSE /\ o_service = NotAsked
    /\ o_min_words \in MinWordsArgs
    /\ o_docs = <<>> /\ o_index = 0 /\ o_attempts = 0
    /\ o_text = NotFetched /\ o_cleaned = <<>> /\ o_quality = None
    /\ o_log = <<>> /\ o_requests = 0 /\ o_result = None

otherVars == <<dualVars, copyVars, qualVars, skipVars, cleanVars, restVars>>

\* s is an order random.shuffle can leave t in.
IsPermutation(s, t) ==
    /\ Len(s) = Len(t)
    /\ \A d \in Range(s) \cup Range(t) :
           Cardinality({i \in DOMAIN s : s[i] = d})
               = Cardinality({i \in DOMAIN t : t[i] = d})

\* `continue`: on to the next candidate.
Continue == o_index' = o_index + 1 /\ o_pc' = "loop"

\* Lines 591-597: the document type is chosen or checked.
Start ==
    /\ o_pc = "start"
    /\ o_type' \in (IF o_type = None THEN DOCUMENT_TYPE_KEYS ELSE {o_type})
    /\ o_pc' = IF o_type' \in DOCUMENT_TYPE_KEYS THEN "search"
               ELSE "returned_none"
    /\ UNCHANGED <<o_min_words, o_key, o_service, o_search, o_requests, o_docs, o_index,
                   o_attempts, o_text, o_cleaned, o_quality, o_log, o_result>>
    /\ UNCHANGED otherVars

\* Lines 604-608: the search, and the return when it lists nothing.
Search ==
    /\ o_pc = "search"
    /\ o_docs' = search_internet_archive(o_type, o_search)
    /\ o_log' = Append(o_log, <<"search", 0>>)
    /\ o_requests' = o_requests + (IF search_request_sent(o_type) THEN 1 ELSE 0)
    /\ o_pc' = IF o_docs' = <<>> THEN "returned_none" ELSE "shuffle"
    /\ UNCHANGED <<o_type, o_min_words, o_key, o_service, o_search, o_index,
                   o_attempts, o_text, o_cleaned, o_quality, o_result>>
    /\ UNCHANGED otherVars

\* Lines 268-316: search_internet_archive called on its own.
SearchCall ==
    /\ o_pc = "search_call"
    /\ o_docs' = search_internet_archive(o_type, o_search)
    /\ o_requests' = o_requests + (IF search_request_sent(o_type) THEN 1 ELSE 0)
    /\ o_pc' = "search_returned"
    /\ UNCHANGED <<o_type, o_min_words, o_key, o_service, o_search, o_index,
                   o_attempts, o_text, o_cleaned, o_quality, o_log, o_result>>
    /\ UNCHANGED otherVars

\* Lines 610-613: random.shuffle(docs).  DocOrders holds every order of
\* every search result.
Shuffle ==
    /\ o_pc = "shuffle"
    /\ o_docs' \in {s \in DocOrders : IsPermutation(s, o_docs)}
    /\ o_index' = 1
    /\ o_pc' = "loop"
    /\ UNCHANGED <<o_type, o_min_words, o_key, o_service, o_search, o_requests,
                   o_attempts, o_text, o_cleaned, o_quality, o_log, o_result>>
    /\ UNCHANGED otherVars

\* Lines 616-621: the next candidate of docs[:max_attempts].
NextCandidate ==
    /\ o_pc = "loop"
    /\ o_index <= Len(attempt_window(o_docs))
    /\ o_attempts' = o_attempts + 1
    /\ o_log' = Append(o_log, <<"attempt", o_index>>)
    /\ IF o_docs[o_index].identifier = <<>>
       THEN Continue
       ELSE o_pc' = "copyright" /\ UNCHANGED o_index
    /\ UNCHANGED <<o_type, o_min_words, o_key, o_service, o_search, o_requests, o_docs,
                   o_text, o_cleaned, o_quality, o_result>>
    /\ UNCHANGED otherVars

\* Lines 626-631.
CopyrightCheck ==
    /\ o_pc = "copyright"
    /\ o_log' = Append(o_log, <<"copyright", o_index>>)
    /\ IF copyright_rejected(verify_copyright_safety(o_docs[o_index]))
       THEN Continue
       ELSE o_pc' = "fetch" /\ UNCHANGED o_index
    /\ UNCHANGED <<o_type, o_min_words, o_key, o_service, o_search, o_requests, o_docs,
                   o_attempts, o_text, o_cleaned, o_quality, o_result>>
    /\ UNCHANGED otherVars

\* Lines 634-637.
GetText ==
    /\ o_pc = "fetch"
    /\ o_text' = get_document_text(o_docs[o_index].identifier)
    /\ o_log' = Append(o_log, <<"fetch", o_index>>)
    /\ IF no_text(o_text')
       THEN Continue
       ELSE o_pc' = "clean" /\ UNCHANGED o_index
    /\ UNCHANGED <<o_type, o_min_words, o_key, o_service, o_search, o_requests, o_docs,
                   o_attempts, o_cleaned, o_quality, o_result>>
    /\ UNCHANGED otherVars

\* Lines 640-645: header skipping (with its request to the service, if one
\* is sent), cleanup and the word count.
CleanText ==
    /\ o_pc = "clean"
    /\ o_cleaned' = clean_document_text(o_text.text, o_key, o_service)
    /\ o_log' = o_log \o <<<<"clean", o_index>>>>
                 \o (IF ai_skip_headers(o_text.text, o_key,
                                        o_service).requested
                     THEN <<<<"llm", o_index>>>> ELSE <<>>)
    /\ IF too_short(word_count_of(o_cleaned'), o_min_words)
       THEN Continue
       ELSE o_pc' = "quality" /\ UNCHANGED o_index
    /\ UNCHANGED <<o_type, o_min_words, o_key, o_service, o_search, o_requests, o_docs,
                   o_attempts, o_text, o_quality, o_result>>
    /\ UNCHANGED otherVars

\* Lines 648-655.
QualityCheck ==
    /\ o_pc = "quality"
    /\ o_quality' = validate_text_quality(o_cleaned, o_type)
    /\ o_log' = Append(o_log, <<"quality", o_index>>)
    /\ IF quality_rejected(o_quality')
       THEN Continue
       ELSE o_pc' = "select" /\ UNCHANGED o_index
    /\ UNCHANGED <<o_type, o_min_words, o_key, o_service, o_search, o_requests, o_docs,
                   o_attempts, o_text, o_cleaned, o_result>>
    /\ UNCHANGED otherVars

\* Lines 658-674: the candidate is selected and returned.
Select ==
    /\ o_pc = "select"
    /\ o_result' =
           [metadata |-> extract_document_metadata(o_cleaned,
                                                   o_docs[o_index]),
            text |-> o_cleaned,
            images |-> get_document_images(o_docs[o_index].identifier,
                                           max_images),
            document_type |-> o_type,
            quality_score |-> o_quality.score,
            quality_details |-> o_quality.details]
    /\ o_log' = Append(o_log, <<"select", o_index>>)
    /\ o_pc' = "returned_doc"
    /\ UNCHANGED <<o_type, o_min_words, o_key, o_service, o_search, o_requests, o_docs,
                   o_index, o_attempts, o_text, o_cleaned, o_quality>>
    /\ UNCHANGED otherVars

\* Lines 676-679: the loop is over and nothing was selected.
Exhausted ==
    /\ o_pc = "loop"
    /\ o_index > Len(attempt_window(o_docs))
    /\ o_pc' = "returned_none"
    /\ UNCHANGED <<o_type, o_min_words, o_key, o_service, o_search, o_requests, o_docs,
                   o_index, o_attempts, o_text, o_cleaned, o_quality, o_log,
                   o_result>>
    /\ UNCHANGED otherVars

Next ==
    \/ Start
    \/ Search
    \/ SearchCall
    \/ Shuffle
    \/ NextCandidate
    \/ CopyrightCheck
    \/ GetText
    \/ CleanText
    \/ QualityCheck
    \/ Select
    \/ Exhausted

Init ==
    OrchInit /\ DualIdle /\ CopyIdle /\ QualIdle /\ SkipIdle /\ CleanIdle
    /\ RestIdle

Spec == Init /\ [][Next]_vars

(***************************************************************************)
(* Claims about select_random_document (checked under Spec)                *)
(***************************************************************************)

Returned == o_pc \in {"returned_none", "returned_doc"}

\* The text file of a candidate was fetched and is not empty.
HasText(doc) ==
    /\ get_document_text(doc.identifier).found
    /\ get_document_text(doc.identifier).text # <<>>

\* The cleaned text of a candidate in this call.
CleanedTextOf(doc) ==
    clean_document_text(get_document_text(doc.identifier).text,
                        o_key, o_service)

\* The gate at which a candidate fails in this call ("none" if it passes).
FailedGate(doc) ==
    IF doc.identifier = <<>> THEN "identifier"
    ELSE IF ~verify_copyright_safety(doc).safe THEN "copyright"
    ELSE IF ~HasText(doc) THEN "text fetch"
    ELSE IF word_count_of(CleanedTextOf(doc)) < o_min_words
    THEN "word count"
    ELSE IF ~validate_text_quality(CleanedTextOf(doc), o_type).passed
    THEN "quality"
    ELSE "none"

AllFailAt(gate) == \A d \in Range(o_docs) : FailedGate(d) = gate

\* The number of times a call is in the log.
TimesLogged(op, i) ==
    Cardinality({k \in DOMAIN o_log : o_log[k] = <<op, i>>})

\* C1: when the search lists n >= 1 candidates that all fail the same gate
\* (copyright, text fetch, word count or quality), the call returns None
\* after taking exactly min(n, 10) candidates, the first min(n, 10) of the
\* shuffled list, each once.
C1_ExhaustsTheWindow ==
    (/\ Returned
     /\ o_docs # <<>>
     /\ \E gate \in {FailedGate(o_docs[1])} :
            /\ gate \in {"copyright", "text fetch", "word count", "quality"}
            /\ AllFailAt(gate))
    => /\ o_pc = "returned_none"
       /\ o_result = None
       /\ o_attempts = Min(Len(o_docs), 10)
       /\ \A i \in DOMAIN o_docs :
              TimesLogged("attempt", i)
                  = IF i <= Min(Len(o_docs), 10) THEN 1 ELSE 0

\* Eleven candidates that all fail the quality gate, none returned.
C1_Witness ==
    /\ o_pc = "returned_none"
    /\ Len(o_docs) > 10
    /\ o_attempts = 10
    /\ AllFailAt("quality")

\* C2: a returned document belongs to one candidate of the list that passed
\* every gate in this call: its copyright verdict is safe, its text file was
\* fetched and is not empty, the returned text is its cleaned text, has at
\* least min_words words and passes validate_text_quality, and the
\* metadata, the images and the quality figures are those of that candidate
\* and that text.
C2_ResultPassedEveryGate ==
    o_pc = "returned_doc" =>
        \E i \in DOMAIN o_docs :
            /\ o_docs[i].identifier # <<>>
            /\ o_result.metadata.archive_id = o_docs[i].identifier
            /\ verify_copyright_safety(o_docs[i]).safe
            /\ HasText(o_docs[i])
            /\ o_result.text = CleanedTextOf(o_docs[i])
            /\ word_count_of(o_result.text) >= o_min_words
            /\ validate_text_quality(o_result.text,
                                     o_result.document_type).passed
            /\ o_result.quality_score
                   = validate_text_quality(o_result.text,
                                           o_result.document_type).score
            /\ o_result.metadata
                   = extract_document_metadata(o_result.text, o_docs[i])
            /\ o_result.images
                   = get_document_images(o_docs[i].identifier, 15)

\* A document is returned after an earlier candidate was passed over.
C2_Witness ==
    /\ o_pc = "returned_doc"
    /\ o_index > 1
    /\ o_result.metadata.archive_id = good_doc.identifier
    /\ o_result.metadata.word_count = o_min_words

\* The place of a step among the steps of one candidate.
StepRank(op) ==
    CASE op = "search" -> 0
      [] op = "attempt" -> 1
      [] op = "copyright" -> 2
      [] op = "fetch" -> 3
      [] op = "clean" -> 4
      [] op = "llm" -> 5
      [] op = "quality" -> 6
      [] op = "select" -> 7

\* C3: the candidates are taken one after the other and the steps of a
\* candidate run in the order copyright check, text fetch, header skip and
\* cleanup (with its request to the service), quality assessment; each
\* step directly follows the one before it, a text is fetched only for a
\* candidate whose copyright verdict is safe, and the header skip, the
\* request to the service and the quality assessment are made only for a
\* candidate whose text fetch returned a non-empty text.
C3_GatesInOrder ==
    /\ \A k \in 1..(Len(o_log) - 1) :
           \/ o_log[k][2] < o_log[k + 1][2]
           \/ /\ o_log[k][2] = o_log[k + 1][2]
              /\ StepRank(o_log[k][1]) < StepRank(o_log[k + 1][1])
    /\ \A k \in 2..Len(o_log) :
           LET op == o_log[k][1]
               i == o_log[k][2]
               before == o_log[k - 1]
           IN  /\ op = "copyright" => before = <<"attempt", i>>
               /\ op = "fetch" =>
                      /\ before = <<"copyright", i>>
                      /\ verify_copyright_safety(o_docs[i]).safe
               /\ op = "clean" =>
                      /\ before = <<"fetch", i>>
                      /\ HasText(o_docs[i])
               /\ op = "llm" =>
                      /\ before = <<"clean", i>>
                      /\ HasText(o_docs[i])
               /\ op = "quality" =>
                      /\ before \in {<<"clean", i>>, <<"llm", i>>}
                      /\ HasText(o_docs[i])
               /\ op = "select" => before = <<"quality", i>>

\* The first candidate was stopped at the copyright check, the second at
\* the text fetch or later, and a request was sent to the service for a
\* later candidate.
C3_Witness ==
    /\ Returned
    /\ Len(o_docs) = 2
    /\ TimesLogged("copyright", 1) = 1 /\ TimesLogged("fetch", 1) = 0
    /\ ~verify_copyright_safety(o_docs[1]).safe
    /\ TimesLogged("llm", 2) = 1 /\ TimesLogged("quality", 2) = 1

\* C19: select_random_document given a non-empty document_type that is no
\* key of DOCUMENT_TYPES returns None before any search, fetch or LLM
\* request; search_internet_archive given an unknown type returns an empty
\* list and sends no request.
C19_UnknownTypeFailsFast ==
    /\ (Returned /\ o_type \notin DOCUMENT_TYPE_KEYS) =>
           /\ o_pc = "returned_none" /\ o_result = None
           /\ o_log = <<>> /\ o_requests = 0
    /\ (o_pc = "search_returned" /\ o_type \notin DOCUMENT_TYPE_KEYS) =>
           /\ o_docs = <<>> /\ o_requests = 0

\* C19 witness: the type "cooking_recipe" with an archive that would have
\* listed a document: None is returned and nothing was called.
C19_Witness ==
    /\ o_pc = "returned_none"
    /\ o_type = "cooking_recipe"
    /\ o_search.kind = "ok" /\ o_search.docs # <<>>
    /\ o_log = <<>> /\ o_requests = 0
    /\ o_result = None

\* The search request was sent and raised, or was answered with a status
\* other than 200.
SearchFailed ==
    o_requests = 1 /\ o_search.kind \in {"exception", "status"}

\* C20: when the search request raises, times out or is answered with a
\* status other than 200, search_internet_archive returns an empty list and
\* select_random_document returns None with no text fetched and no gate
\* called; the calls return (nothing is raised to the caller).
C20_SearchFailureGivesNone ==
    /\ (o_pc = "search_returned" /\ SearchFailed) => o_docs = <<>>
    /\ (Returned /\ SearchFailed) =>
           /\ o_pc = "returned_none" /\ o_result = None
           /\ o_docs = <<>>
           /\ o_log = <<<<"search", 0>>>>

\* C20 witness: a reply with status other than 200 whose body lists a
\* document; select_random_document returned None right after the search.
C20_Witness ==
    /\ o_pc = "returned_none"
    /\ o_search.kind = "status" /\ o_search.docs # <<>>
    /\ o_requests = 1
    /\ o_docs = <<>>
    /\ o_log = <<<<"search", 0>>>>
    /\ o_result = None

(***************************************************************************)
(* Further claims about validate_text_quality (checked under SpecQuality)  *)
(***************************************************************************)

\* The document_type arguments a caller can give: None and the profiles.
AllDocumentTypes == DOCUMENT_TYPE_KEYS \cup {None}

\* The sample texts of one block.
SingleBlockTexts == {Build(<<b>>) : b \in Units \X Reps}

\* C23 (as claimed): the thresholds applied are those of the document_type
\* given, so that some text is accepted under one profile and rejected
\* under another: whatever type the call was given, for the text validated
\* or for one of the one-block sample texts another type gives the other
\* verdict.
C23_ProfileThresholdsApply ==
    q_pc = "done" =>
        \E text \in SingleBlockTexts \cup {q_text} :
            \E t \in AllDocumentTypes :
                validate_text_quality(text, t).passed
                    # validate_text_quality(text, q_type).passed

\* The failed checks of the report, in the order english ratio, ASCII
\* ratio, word length, sentence structure, punctuation.
FailedChecks ==
    (IF EnglishClears(quality.details) THEN <<>>
     ELSE <<"Low English ratio">>)
    \o (IF AsciiClears(quality.details) THEN <<>>
        ELSE <<"Too many non-ASCII">>)
    \o (IF WordLengthClears(quality.details) THEN <<>>
        ELSE <<"Unusual word length">>)
    \o (IF SentenceClears(quality) THEN <<>>
        ELSE <<"Poor sentence structure">>)
    \o (IF PunctuationClears(quality.details) THEN <<>>
        ELSE <<"Excessive punctuation">>)

\* C26: for every text past the hard floors the reason lists exactly the
\* checks that failed, each once and in the fixed order; the list is
\* non-empty when passed=false, and no failure is listed when passed=true.
C26_ReasonListsFailedChecks ==
    PastFloors =>
        /\ quality.passed => quality.reason = <<"Passed all quality checks">>
        /\ ~quality.passed =>
               /\ quality.reason = <<"Failed: ">> \o FailedChecks
               /\ FailedChecks # <<>>

\* C26 witness: a rejected text whose reason lists three failures, the
\* word length between the English ratio and the punctuation.
C26_Witness ==
    /\ PastFloors
    /\ ~quality.passed
    /\ quality.reason = <<"Failed: ", "Low English ratio",
                          "Unusual word length", "Excessive punctuation">>

(***************************************************************************)
(* Further claims about brutal_header_skip (checked under SpecSkip)        *)
(***************************************************************************)

\* part is str[k:] for an offset k.
IsSuffix(part, str) ==
    /\ Len(part) <= Len(str)
    /\ part = SliceFrom(str, Len(str) - Len(part))

\* C27 (as claimed): the text brutal_header_skip returns is a suffix of its
\* input, input[k:] for one offset k.
C27_ResultIsSuffix ==
    (s_pc = "done" /\ ~s_out.used_ai) => IsSuffix(s_out.text, s_raw_text)

(***************************************************************************)
(* Further claims about dual_llm_find_content (checked under SpecDual)     *)
(***************************************************************************)

C25_AgreementNeedsParsedVerdict ==
    (d_pc = "done" /\ d_result.agreed) => verifier_parsed

(***************************************************************************)
(* main_pipeline.BureaucraticArchivistPipeline.create_video                *)
(*                                                                         *)
(* create_video calls select_random_document (the actions of Next above)   *)
(* and then runs its downstream steps.  A step that raises ends the call:  *)
(* the except clause of lines 284-288 prints and re-raises.                *)
(***************************************************************************)

\* Lines 113-241: the steps after the document, in the order of the code.
DownstreamSteps ==
    <<"script", "audio", "images", "thumbnail", "video", "metadata">>

\* Lines 43-47: the history of a pipeline that made nothing yet.
EmptyHistory == [videos |-> <<>>, documents_used |-> <<>>,
                 voices_used |-> <<>>]

\* Lines 13-22 of voice_generator.py: two of the voices to choose from.
Voices == {"en-US-GuyNeural", "en-GB-RyanNeural"}

\* A history with one earlier video.
EarlierHistory ==
    [videos |-> <<[document_id |-> good_doc.identifier]>>,
     documents_used |-> <<good_doc.identifier>>,
     voices_used |-> <<"en-US-GuyNeural">>]

NoFile == [exists |-> FALSE, content |-> EmptyHistory]

\* Lines 38-47: _load_history.
load_history(file) == IF file.exists THEN file.content ELSE EmptyHistory

\* Line 94: `if not document`, document being [found, value] with found
\* FALSE for None.
document_missingNever(document) == FALSE
document_missing(document) == ~document.found

\* What the search does in the calls explored: it fails, it lists nothing,
\* it lists only documents after the cutoff, it lists a good document.
PipelineSearchOutcomes ==
    {[kind |-> "exception", docs |-> <<>>], [kind |-> "ok", docs |-> <<>>],
     [kind |-> "ok", docs |-> <<good_doc>>],
     [kind |-> "ok", docs |-> <<late_doc, good_doc>>]}
    \cup {[kind |-> "ok", docs |-> Repeat(late_doc, n)] : n \in 1..MaxDocs}

\* Lines 22-36 and 53-88: the pipeline is constructed, create_video is
\* called and calls select_random_document.
PipeInit ==
    /\ p_pc = "fetch"
    /\ p_failing \in Range(DownstreamSteps) \cup {None}
    /\ p_steps = <<>>
    /\ history_file \in {NoFile, [exists |-> TRUE, content |-> EarlierHistory]}
    /\ history = load_history(history_file)
    /\ o_pc = "start"
    /\ o_type \in {"court_record", "cooking_recipe"}
    /\ o_search \in PipelineSearchOutcomes
    /\ o_key = FALSE /\ o_service = NotAsked
    /\ o_min_words \in MinWordsArgs
    /\ o_docs = <<>> /\ o_index = 0 /\ o_attempts = 0
    /\ o_text = NotFetched /\ o_cleaned = <<>> /\ o_quality = None
    /\ o_log = <<>> /\ o_requests = 0 /\ o_result = None

pipeOthers ==
    <<dualVars, copyVars, qualVars, skipVars, cleanVars, orchVars, splitVars,
      llmVars, fetchVars>>

\* Lines 88-105: select_random_document has returned; without a document
\* the call raises, and the except clause re-raises (lines 284-288).
FetchDocument ==
    /\ p_pc = "fetch"
    /\ o_pc \in {"returned_none", "returned_doc"}
    /\ LET document == [found |-> o_pc = "returned_doc", value |-> o_result]
       IN  p_pc' = IF document_missing(document) THEN "raised" ELSE "steps"
    /\ UNCHANGED <<p_failing, p_steps, history, history_file>>
    /\ UNCHANGED pipeOthers

\* Lines 110-241: the next downstream step runs, or raises.
RunStep ==
    /\ p_pc = "steps"
    /\ Len(p_steps) < Len(DownstreamSteps)
    /\ LET step == DownstreamSteps[Len(p_steps) + 1] IN
       IF step = p_failing
       THEN p_pc' = "raised" /\ UNCHANGED p_steps
       ELSE /\ p_steps' = Append(p_steps, step)
            /\ p_pc' = IF Len(p_steps') = Len(DownstreamSteps)
                       THEN "history" ELSE "steps"
    /\ UNCHANGED <<p_failing, history, history_file>>
    /\ UNCHANGED pipeOthers

\* Lines 246-282: the history is extended and saved, and the paths are
\* returned.
UpdateHistory ==
    /\ p_pc = "history"
    /\ \E voice \in Voices :
           history' =
               [videos |-> Append(history.videos,
                       [document_id |-> o_result.metadata.archive_id]),
                documents_used |-> Append(history.documents_used,
                                          o_result.metadata.archive_id),
                voices_used |-> Append(history.voices_used, voice)]
    /\ history_file' = [exists |-> TRUE, content |-> history']
    /\ p_pc' = "returned"
    /\ UNCHANGED <<p_failing, p_steps>>
    /\ UNCHANGED pipeOthers

PipeNext ==
    \/ Start
    \/ Search
    \/ Shuffle
    \/ NextCandidate
    \/ CopyrightCheck
    \/ GetText
    \/ CleanText
    \/ QualityCheck
    \/ Select
    \/ Exhausted
    \/ FetchDocument
    \/ RunStep
    \/ UpdateHistory

InitPipeline ==
    PipeInit /\ DualIdle /\ CopyIdle /\ QualIdle /\ SkipIdle /\ CleanIdle
    /\ SplitIdle /\ LlmIdle /\ FetchIdle

SpecPipeline == InitPipeline /\ [][PipeNext]_vars

(***************************************************************************)
(* Claims about create_video (checked under SpecPipeline)                  *)
(***************************************************************************)

\* C21: while select_random_document has yielded no document, create_video
\* runs no downstream step and leaves the video history unchanged in
\* memory and on disk.
C21_NoneRunsNothing ==
    [][o_pc' # "returned_doc" =>
           /\ p_steps' = <<>>
           /\ history' = history /\ history_file' = history_file]_vars

\* C21 witness: the attempts were exhausted with a history of one video on
\* disk, and create_video is over.
C21_Witness ==
    /\ o_pc = "returned_none" /\ o_attempts > 1
    /\ p_pc = "raised" /\ p_steps = <<>>
    /\ history = EarlierHistory
    /\ history_file = [exists |-> TRUE, content |-> EarlierHistory]

\* C22: when select_random_document returns None, create_video finishes
\* without raising an exception.
C22_ExhaustionDoesNotRaise ==
    o_pc = "returned_none" => p_pc # "raised"

(***************************************************************************)
(* document_scraper.split_text_for_duration and the script builders        *)
(***************************************************************************)

\* Largest target_minutes and requested duration explored.
MaxMinutes == 3

\* text.split(): the whitespace-delimited words, in order.
split_words(text) ==
    LET at == SubSeq([i \in 1..Len(text) |-> i], 1, Len(text))
        IsStart(i) == /\ text[i] \notin Whitespace
                      /\ (i = 1 \/ text[i - 1] \in Whitespace)
        IsEnd(i) == /\ text[i] \notin Whitespace
                    /\ (i = Len(text) \/ text[i + 1] \in Whitespace)
        starts == SelectSeq(at, IsStart)
        ends == SelectSeq(at, IsEnd)
    IN  SubSeq([k \in 1..Len(starts) |-> SubSeq(text, starts[k], ends[k])],
               1, Len(starts))

RECURSIVE join_range(_, _, _)
\* ' '.join(parts[lo..hi]), halving the range.
join_range(parts, lo, hi) ==
    IF lo > hi THEN <<>>
    ELSE IF lo = hi THEN parts[lo]
    ELSE LET mid == (lo + hi) \div 2
         IN  join_range(parts, lo, mid) \o <<" ">>
                 \o join_range(parts, mid + 1, hi)

\* seq[:stop] of Python: a negative stop counts from the end.
slice_to(seq, stop) ==
    IF stop >= 0 THEN SubSeq(seq, 1, Min(stop, Len(seq)))
    ELSE SubSeq(seq, 1, Max(0, Len(seq) + stop))

\* str.rfind('.'): the 0-based offset of the last period, -1 if none.
rfind_period(str) ==
    LET hits == {i \in 1..Len(str) : str[i] = "."}
    IN  IF hits = {} THEN 0 - 1
        ELSE (CHOOSE i \in hits : \A j \in hits : j <= i) - 1

\* Lines 563-577.
split_text_for_duration(text, target_minutes, words_per_minute) ==
    LET target_words == target_minutes * words_per_minute
        words == split_words(text)
        kept == slice_to(words, target_words)
        target_text == join_range(kept, 1, Len(kept))
        last_period == rfind_period(target_text)
    IN  IF Len(words) <= target_words THEN text
        ELSE IF last_period * 10 > Len(target_text) * 8
             THEN SliceTo(target_text, last_period + 1)
             ELSE target_text

\* Lines of five words, with and without a period.
filed_sentence == <<"T", "h", "e", " ", "c", "l", "e", "r", "k", " ", "f", "i", "l", "e", "d", " ", "t", "h", "e", " ", "r", "e", "p", "o", "r", "t", ".", " ">>
filed_line == <<"t", "h", "e", " ", "c", "l", "e", "r", "k", " ", "f", "i", "l", "e", "d", " ", "t", "h", "e", " ", "r", "e", "p", "o", "r", "t", "\n">>

\* The texts explored: empty, blank, 5, 15, 10, 105 and 250 words.
SplitTexts ==
    {<<>>, <<" ", "\n">>,
     Build(<<<<filed_sentence, 1>>>>),
     Build(<<<<filed_sentence, 2>>, <<filed_line, 1>>>>),
     Build(<<<<filed_line, 2>>>>),
     Build(<<<<filed_sentence, 20>>, <<filed_line, 1>>>>),
     Build(<<<<filed_sentence, 50>>>>)}

\* words_per_minute arguments other than the default of line 563.
SplitRates == {1, 5, 7}

\* A direct call, or the call of a script builder (lines 280-282 of
\* scriptenhancer.py, line 130 of main_pipeline.py): target_minutes - 2 of
\* the requested duration, 120 words per minute.
SplitInit ==
    /\ t_pc = "call"
    /\ t_text \in SplitTexts
    /\ \/ /\ t_minutes \in (0 - MaxMinutes)..MaxMinutes
          /\ t_wpm \in SplitRates
       \/ /\ \E requested \in 0..(MaxMinutes + 2) : t_minutes = requested - 2
          /\ t_wpm = 120
    /\ t_out = <<>>

SplitText ==
    /\ t_pc = "call"
    /\ t_out' = split_text_for_duration(t_text, t_minutes, t_wpm)
    /\ t_pc' = "done"
    /\ UNCHANGED <<t_text, t_minutes, t_wpm>>

SplitNext ==
    SplitText
    /\ UNCHANGED <<dualVars, copyVars, qualVars, skipVars, orchVars, cleanVars,
                   pipeVars, llmVars, fetchVars>>

InitSplit ==
    SplitInit /\ DualIdle /\ CopyIdle /\ QualIdle /\ SkipIdle /\ OrchIdle
    /\ CleanIdle /\ PipeIdle /\ LlmIdle /\ FetchIdle

SpecSplit == InitSplit /\ [][SplitNext]_vars

(***************************************************************************)
(* Claims about split_text_for_duration (checked under SpecSplit)          *)
(***************************************************************************)

\* first is a prefix of second.
IsPrefix(first, second) ==
    Len(first) <= Len(second) /\ first = SubSeq(second, 1, Len(first))

\* C28: the text is returned unchanged when it has at most
\* target_minutes * words_per_minute words; otherwise at most that many
\* words are returned, taken from the start of the text; for zero and
\* negative targets too.
C28_AtMostTargetWords ==
    t_pc = "done" =>
        LET target_words == t_minutes * t_wpm IN
        IF Len(split_words(t_text)) <= target_words THEN t_out = t_text
        ELSE /\ Len(split_words(t_out)) <= target_words
             /\ IsPrefix(split_words(t_out), split_words(t_text))

(***************************************************************************)
(* text_cleaner.py                                                         *)
(*                                                                         *)
(* An optional string is [found, text], found FALSE for None.  A call of   *)
(* clean_gutenberg_text that raises has the outcome [raised |-> TRUE].     *)
(***************************************************************************)

\* The default chunk_size (line 163).
default_chunk_size == 3000

NoString == [found |-> FALSE, text |-> <<>>]
SomeString(str) == [found |-> TRUE, text |-> str]

\* str without the characters at the offsets in dropped.
Without(str, dropped) ==
    LET at == SubSeq([i \in 1..Len(str) |-> i], 1, Len(str))
        Kept(i) == i \notin dropped
        kept == SelectSeq(at, Kept)
    IN  SubSeq([k \in 1..Len(kept) |-> str[kept[k]]], 1, Len(kept))

RECURSIVE run_position(_, _, _)
\* How many consecutive characters `mark` end at offset i of str.
run_position(str, mark, i) ==
    IF i = 0 \/ str[i] # mark THEN 0 ELSE 1 + run_position(str, mark, i - 1)

\* str.replace(' ' + mark, mark)
unspace(str, mark) ==
    Without(str, {i \in 1..(Len(str) - 1) :
                     str[i] = " " /\ str[i + 1] = mark})

\* str.replace(mark + mark, mark): every second character of a run goes.
undouble(str, mark) ==
    Without(str, {i \in 1..Len(str) :
                     str[i] = mark /\ run_position(str, mark, i) % 2 = 0})

\* Lines 131-157 (the quote patterns of lines 151-152 replace a character
\* by itself).
clean_text_basic(text) ==
    LET spaced == Without(text, {i \in 2..Len(text) :
                                    text[i] = " " /\ text[i - 1] = " "})
        lined == Without(spaced, {i \in 3..Len(spaced) :
                                     /\ spaced[i] = "\n"
                                     /\ spaced[i - 1] = "\n"
                                     /\ spaced[i - 2] = "\n"})
        fixed == undouble(undouble(unspace(unspace(unspace(unspace(
                     lined, ","), "."), ";"), ":"), ","), ".")
        dashed == SubSeq([i \in 1..Len(fixed) |->
                             IF fixed[i] \in {"U+2014", "U+2013"} THEN "-"
                             ELSE fixed[i]], 1, Len(fixed))
    IN  Strip(dashed)

\* str.isupper(): a cased character, and no lower-case one.
is_upper(str) ==
    /\ \E i \in 1..Len(str) : IsUpper(str[i])
    /\ \A i \in 1..Len(str) : ~IsLower(str[i])

\* Lines 90-123: what one line does to <<result, current_paragraph>>.
wrap_line(line, result, current) ==
    LET stripped == Strip(line)
        last == current[Len(current)]
        ends_sentence == last[Len(last)] \in {".", "!", "?", ":"}
        closed == IF current = <<>> THEN result
                  ELSE Append(result, Join(current, <<" ">>))
    IN  IF stripped = <<>> THEN <<Append(closed, <<>>), <<>>>>
        ELSE IF /\ current # <<>>
                /\ ~IsUpper(stripped[1])
                /\ (~ends_sentence \/ Len(stripped) > 50)
        THEN <<result, Append(current, stripped)>>
        ELSE IF /\ Len(stripped) < 60
                /\ (is_upper(stripped) \/ stripped[Len(stripped)] = ":")
        THEN <<Append(closed, stripped), <<>>>>
        ELSE <<result, Append(current, stripped)>>

RECURSIVE wrap_lines(_, _, _, _)
\* Lines 87-126: the loop over lines from the k-th on, and the last
\* paragraph.
wrap_lines(lines, k, result, current) ==
    IF k > Len(lines)
    THEN IF current = <<>> THEN result
         ELSE Append(result, Join(current, <<" ">>))
    ELSE LET next == wrap_line(lines[k], result, current)
         IN  wrap_lines(lines, k + 1, next[1], next[2])

IsNonEmpty(str) == str # <<>>

\* Lines 68-128.
fix_hard_wraps(text) ==
    Join(SelectSeq(wrap_lines(SplitLines(text), 1, <<>>, <<>>), IsNonEmpty),
         <<"\n", "\n">>)

\* Lines 24-65: None without a key, when the request raises, and for a
\* status other than 200; the stripped content otherwise.
call_groq(key, reply) ==
    IF ~key \/ reply.kind # "ok" THEN NoString
    ELSE SomeString(Strip(reply.content))

fence == <<"U+0060", "U+0060", "U+0060">>

\* Line 236: re.sub(r'^```.*\n?', '', result).
drop_opening_fence(str) ==
    IF ~OccursAt(str, 1, fence) THEN str
    ELSE LET nl == Find(str, <<"\n">>)
         IN  IF nl < 0 THEN <<>> ELSE SliceFrom(str, nl + 1)

\* Line 237: re.sub(r'\n?```$', '', result).
drop_closing_fence(str) ==
    LET n == Len(str) IN
    IF n < 3 \/ SubSeq(str, n - 2, n) # fence THEN str
    ELSE IF n > 3 /\ str[n - 3] = "\n" THEN SubSeq(str, 1, n - 4)
    ELSE SubSeq(str, 1, n - 3)

\* Lines 210-240.
clean_single_chunk(text, key, reply) ==
    LET result == call_groq(key, reply) IN
    IF result.found /\ result.text # <<>>
    THEN SomeString(Strip(drop_closing_fence(
                              drop_opening_fence(result.text))))
    ELSE NoString

\* text.split('\n\n')
split_paragraphs(text) ==
    LET seps == SortedSeq({i \in 1..(Len(text) - 1) :
                              /\ text[i] = "\n" /\ text[i + 1] = "\n"
                              /\ run_position(text, "\n", i) % 2 = 1})
        m == Len(seps)
        from(k) == IF k = 1 THEN 1 ELSE seps[k - 1] + 2
        to(k) == IF k = m + 1 THEN Len(text) ELSE seps[k] - 1
    IN  SubSeq([k \in 1..(m + 1) |-> SubSeq(text, from(k), to(k))], 1, m + 1)

RECURSIVE make_chunks(_, _, _, _, _, _)
\* Lines 183-192: the loop over paragraphs from the k-th on, and the last
\* chunk.
make_chunks(paragraphs, k, chunk_size, chunks, current, size) ==
    IF k > Len(paragraphs)
    THEN IF current = <<>> THEN chunks
         ELSE Append(chunks, Join(current, <<"\n", "\n">>))
    ELSE LET para == paragraphs[k]
             full == size + Len(para) > chunk_size /\ current # <<>>
         IN  IF full
             THEN make_chunks(paragraphs, k + 1, chunk_size,
                              Append(chunks, Join(current, <<"\n", "\n">>)),
                              <<para>>, Len(para))
             ELSE make_chunks(paragraphs, k + 1, chunk_size, chunks,
                              Append(current, para), size + Len(para))

\* Line 174: texts shorter than chunk_size go to the service in one piece.
is_short_text(text, chunk_size) == Len(text) < chunk_size

\* Lines 198-205: the cleaned form of the k-th chunk, the regex cleaning
\* when the service gave nothing.
cleaned_chunk(chunk, key, reply) ==
    LET cleaned == clean_single_chunk(chunk, key, reply) IN
    IF cleaned.found /\ cleaned.text # <<>> THEN cleaned.text
    ELSE clean_text_basic(fix_hard_wraps(chunk))

\* The reply to the k-th request of a call.
ReplyAt(replies, k) == replies[Min(k, Len(replies))]

\* Lines 160-207.
clean_text_with_llm(text, key, chunk_size, replies) ==
    IF is_short_text(text, chunk_size)
    THEN clean_single_chunk(text, key, ReplyAt(replies, 1))
    ELSE LET chunks == make_chunks(split_paragraphs(text), 1, chunk_size,
                                   <<>>, <<>>, 0)
         IN  SomeString(Join(
                 SubSeq([k \in 1..Len(chunks) |->
                            cleaned_chunk(chunks[k], key,
                                          ReplyAt(replies, k))],
                        1, Len(chunks)),
                 <<"\n", "\n">>))

\* Lines 243-292, for use_llm=True: the outcome of the call.
clean_gutenberg_text(text, key, replies) ==
    LET fixed == fix_hard_wraps(clean_text_basic(text))
        cleaned == IF key
                   THEN clean_text_with_llm(fixed, key, default_chunk_size,
                                            replies)
                   ELSE SomeString(fixed)
    IN  IF ~cleaned.found
        THEN [raised |-> TRUE, cleaned_text |-> NoString, word_count |-> 0,
              method |-> "LLM + regex"]
        ELSE [raised |-> FALSE, cleaned_text |-> cleaned,
              word_count |-> word_count_of(cleaned.text),
              method |-> IF key THEN "LLM + regex" ELSE "regex only"]

\* ---- the inputs explored ----

\* Hard-wrapped lines of a paragraph, a heading, and a paragraph of one
\* long line.
wrapped_lines == <<"T", "h", "e", " ", "c", "l", "e", "r", "k", " ", " ", "f", "i", "l", "e", "d", "\n", "t", "h", "e", " ", "r", "e", "p", "o", "r", "t", " ", ".", ".", "\n", "\n">>
heading_lines == <<"M", "I", "N", "U", "T", "E", "S", "\n", "\n", "\n", "\n">>
long_paragraph == Expand(filed_sentence, 40) \o <<"\n", "\n">>

\* The texts: 6, 43, 75 and 96 characters, and 3366.
LlmTexts ==
    {<<"T", "e", "x", "t", ".", " ">>,
     Build(<<<<heading_lines, 1>>, <<wrapped_lines, 1>>>>),
     Build(<<<<wrapped_lines, 2>>, <<heading_lines, 1>>>>),
     Build(<<<<wrapped_lines, 3>>>>),
     Build(<<<<long_paragraph, 3>>>>)}

\* What the service does with a request: it raises, it answers with a
\* status other than 200, with blank content, with a fence only, with a
\* text, or with a fenced text.
Replies ==
    {[kind |-> "exception", content |-> <<>>],
     [kind |-> "status", content |-> <<>>],
     [kind |-> "ok", content |-> <<" ", "\n">>],
     [kind |-> "ok", content |-> fence],
     [kind |-> "ok", content |-> <<"C", "l", "e", "a", "n", ".">>],
     [kind |-> "ok",
      content |-> fence \o <<"t", "x", "t", "\n", "C", "l", "e", "a", "n", ".", "\n">>
                      \o fence]}

\* Largest number of requests whose replies differ.
MaxReplies == 2

ReplyLists == UNION {[1..n -> Replies] : n \in 1..MaxReplies}

\* chunk_size arguments: one below the texts' lengths, and the default.
ChunkSizes == {30, default_chunk_size}

\* A call of clean_text_with_llm, or one of clean_gutenberg_text.
LlmInit ==
    /\ g_pc \in {"clean_text_with_llm", "clean_gutenberg_text"}
    /\ g_text \in LlmTexts
    /\ g_key \in BOOLEAN
    /\ g_chunk_size \in
           (IF g_pc = "clean_text_with_llm" THEN ChunkSizes
            ELSE {default_chunk_size})
    /\ g_replies \in ReplyLists
    /\ g_out = None

CleanTextWithLlm ==
    /\ g_pc = "clean_text_with_llm"
    /\ LET text == clean_text_with_llm(g_text, g_key, g_chunk_size, g_replies)
       IN  g_out' = [raised |-> FALSE, cleaned_text |-> text,
                     word_count |-> 0, method |-> "LLM"]
    /\ g_pc' = "done"
    /\ UNCHANGED <<g_text, g_key, g_chunk_size, g_replies>>

CleanGutenbergText ==
    /\ g_pc = "clean_gutenberg_text"
    /\ g_out' = clean_gutenberg_text(g_text, g_key, g_replies)
    /\ g_pc' = "done"
    /\ UNCHANGED <<g_text, g_key, g_chunk_size, g_replies>>

llmOthers ==
    <<dualVars, copyVars, qualVars, skipVars, orchVars, cleanVars, pipeVars,
      splitVars, fetchVars>>

LlmNext ==
    \/ CleanTextWithLlm /\ UNCHANGED llmOthers
    \/ CleanGutenbergText /\ UNCHANGED llmOthers

InitLlm ==
    LlmInit /\ DualIdle /\ CopyIdle /\ QualIdle /\ SkipIdle /\ OrchIdle
    /\ CleanIdle /\ PipeIdle /\ SplitIdle /\ FetchIdle

SpecLlm == InitLlm /\ [][LlmNext]_vars

(***************************************************************************)
(* Claims about text_cleaner.py (checked under SpecLlm)                    *)
(***************************************************************************)

\* C29: whatever the service does, clean_text_with_llm returns a string,
\* for texts shorter than chunk_size as well as longer ones, and
\* clean_gutenberg_text returns its dict without raising.
C29_FallbackGivesString ==
    g_pc = "done" => (~g_out.raised /\ g_out.cleaned_text.found)

(***************************************************************************)
(* document_fetcher.py: select_random_document and clean_document_text     *)
(***************************************************************************)

\* Largest number of documents the search lists.
MaxFetched == 3

\* Line 353: docs[:10].
fetcher_attempts == 10

\* Lines 195-252.  The loop of line 227 unpacks every entry of ocr_fixes
\* into two names; the last entry (line 224) has three members, so for
\* every text that passes line 206 the loop raises ValueError once the
\* first eleven substitutions are made, and nothing after it runs.
fetcher_clean_document_text(raw_text) ==
    IF raw_text = <<>> THEN [raised |-> FALSE, text |-> <<>>]
    ELSE [raised |-> TRUE, text |-> <<>>]

\* Lines 107-142: the text file of a document; None when the request
\* raises or neither address answers 200.
fetcher_get_document_text(doc) ==
    IF doc.fetch = "ok" THEN SomeString(doc.text) ELSE NoString

\* The documents listed: without identifier, without a text file, with an
\* empty text file, with 5 words, with 15 words.
FetchedDocs ==
    {[identifier |-> <<>>, fetch |-> "ok", text |-> filed_sentence],
     [identifier |-> <<"a">>, fetch |-> "status", text |-> <<>>],
     [identifier |-> <<"b">>, fetch |-> "ok", text |-> <<>>],
     [identifier |-> <<"c">>, fetch |-> "ok", text |-> filed_sentence],
     [identifier |-> <<"d">>, fetch |-> "ok",
      text |-> Expand(filed_sentence, 3)]}

\* What the search does: the request raises, the status is not 200, or
\* the reply lists up to MaxFetched documents.
FetcherSearchOutcomes ==
    {[kind |-> k, docs |-> <<>>] : k \in {"exception", "status", "ok"}}
    \cup UNION {{[kind |-> "ok", docs |-> d] : d \in [1..n -> FetchedDocs]} :
                   n \in 1..MaxFetched}

PendingOutcome == [kind |-> "pending", text |-> <<>>]

\* A call of select_random_document, or one of clean_document_text alone.
FetcherInit ==
    /\ \/ /\ f_pc = "search"
          /\ f_search \in FetcherSearchOutcomes
          /\ f_raw_text = <<>>
       \/ /\ f_pc = "clean_call"
          /\ f_search = [kind |-> "ok", docs |-> <<>>]
          /\ f_raw_text \in {d.text : d \in FetchedDocs} \cup {<<" ">>}
    /\ f_min_words = 10
    /\ f_docs = <<>> /\ f_index = 0
    /\ f_out = PendingOutcome

\* Lines 337-351: the search, the return of None when it lists nothing,
\* and the shuffle.
FetcherSearch ==
    /\ f_pc = "search"
    /\ LET docs == IF f_search.kind = "ok" THEN f_search.docs ELSE <<>> IN
       IF docs = <<>>
       THEN /\ f_out' = [kind |-> "none", text |-> <<>>]
            /\ f_pc' = "done"
            /\ UNCHANGED <<f_docs, f_index>>
       ELSE /\ f_docs' \in {s \in [1..Len(docs) -> Range(docs)] :
                               IsPermutation(s, docs)}
            /\ f_index' = 1
            /\ f_pc' = "loop"
            /\ UNCHANGED f_out
    /\ UNCHANGED <<f_search, f_min_words, f_raw_text>>

\* Lines 353-390: one candidate of the loop.
FetcherCandidate ==
    /\ f_pc = "loop"
    /\ f_index <= Len(SliceTo(f_docs, fetcher_attempts))
    /\ LET doc == f_docs[f_index]
           text == fetcher_get_document_text(doc)
           cleaned == fetcher_clean_document_text(text.text)
           skip == /\ f_index' = f_index + 1
                   /\ UNCHANGED <<f_pc, f_out>>
       IN  IF doc.identifier = <<>> THEN skip
           ELSE IF ~text.found \/ text.text = <<>> THEN skip
           ELSE IF cleaned.raised
           THEN /\ f_out' = [kind |-> "raised", text |-> <<>>]
                /\ f_pc' = "done"
                /\ UNCHANGED f_index
           ELSE IF word_count_of(cleaned.text) < f_min_words THEN skip
           ELSE /\ f_out' = [kind |-> "dict", text |-> cleaned.text]
                /\ f_pc' = "done"
                /\ UNCHANGED f_index
    /\ UNCHANGED <<f_search, f_min_words, f_raw_text, f_docs>>

\* Lines 391-392: the loop is over and nothing was selected.
FetcherExhausted ==
    /\ f_pc = "loop"
    /\ f_index > Len(SliceTo(f_docs, fetcher_attempts))
    /\ f_out' = [kind |-> "none", text |-> <<>>]
    /\ f_pc' = "done"
    /\ UNCHANGED <<f_search, f_min_words, f_raw_text, f_docs, f_index>>

\* A call of clean_document_text alone.
FetcherClean ==
    /\ f_pc = "clean_call"
    /\ LET cleaned == fetcher_clean_document_text(f_raw_text) IN
       f_out' = IF cleaned.raised THEN [kind |-> "raised", text |-> <<>>]
                ELSE [kind |-> "string", text |-> cleaned.text]
    /\ f_pc' = "done"
    /\ UNCHANGED <<f_search, f_min_words, f_raw_text, f_docs, f_index>>

fetchOthers ==
    <<dualVars, copyVars, qualVars, skipVars, orchVars, cleanVars, pipeVars,
      splitVars, llmVars>>

FetcherNext ==
    \/ FetcherSearch /\ UNCHANGED fetchOthers
    \/ FetcherCandidate /\ UNCHANGED fetchOthers
    \/ FetcherExhausted /\ UNCHANGED fetchOthers
    \/ FetcherClean /\ UNCHANGED fetchOthers

InitFetcher ==
    FetcherInit /\ DualIdle /\ CopyIdle /\ QualIdle /\ SkipIdle /\ OrchIdle
    /\ CleanIdle /\ PipeIdle /\ SplitIdle /\ LlmIdle

SpecFetcher == InitFetcher /\ [][FetcherNext]_vars

(***************************************************************************)
(* Claims about document_fetcher.py (checked under SpecFetcher)            *)
(***************************************************************************)

\* C30: select_random_document returns a document dict or None and never
\* raises, and clean_document_text returns a string for every non-empty
\* raw text.
C30_DictOrNoneNeverRaises ==
    f_pc = "done" =>
        /\ f_out.kind \in {"dict", "none", "string"}
        /\ (f_raw_text # <<>> => f_out.kind = "string")

=============================================================================
